---- MODULE Spec2Model ----
(***************************************************************************)
(* Recognition-and-attendance pipeline of the FunMeter backend.            *)
(*                                                                         *)
(* Time is counted in milliseconds since an arbitrary origin: time.time()  *)
(* is a float of sub-millisecond resolution, now_iso() truncates it to     *)
(* whole seconds, and the stream recognizer compares with a tolerance of   *)
(* 1e-3 s, so the millisecond is the coarsest unit that keeps all three.   *)
(* Scores and thresholds are hundredths (0.60 is 60).                      *)
(***************************************************************************)
EXTENDS Integers, Sequences, FiniteSets, TLC

(***************************************************************************)
(* Bounds of the model.                                                    *)
(***************************************************************************)
\* attendance.cooldown_sec as configured (an integer number of seconds)
CooldownSec == 2
\* ATT_MAX_EVENTS as configured
MaxAttEvents == 3
\* how far the clock runs past its initial reading (ms)
Horizon == 2000
\* records admitted in a behaviour of the write-through specification
MaxOps == 3
\* records and admin operations that reach save_attendance_db in a behaviour
\* of the full attendance-store specification
MaxStoreOps == 2
\* background write-through tasks pending at once
MaxTasks == 2
\* the clock's reading in the initial state (ms)
Epoch0 == 100000

(***************************************************************************)
(* Units and small helpers.                                                *)
(***************************************************************************)
Ms(sec) == sec * 1000

CooldownMs == Ms(CooldownSec)

Max2(a, b) == IF a >= b THEN a ELSE b

Min2(a, b) == IF a <= b THEN a ELSE b

SetMax(S) == CHOOSE x \in S : \A y \in S : x >= y

\* A Python dict: a function whose domain is the set of keys present.
EmptyMap == [k \in {} |-> 0]

Get(m, k, default) == IF k \in DOMAIN m THEN m[k] ELSE default

Put(m, k, v) == [x \in (DOMAIN m) \cup {k} |-> IF x = k THEN v ELSE m[x]]

Take(s, n) == SubSeq(s, 1, Min2(n, Len(s)))

Range(s) == {s[i] : i \in DOMAIN s}

\* person_id "" (an event's key holding "", a null column of the store)
NoPid == ""

\* an event without a person_id key
AbsentPid == "<absent>"

\* an event whose person_id key holds Python's None
PyNone == "<None>"

\* truthiness of ev.get("person_id")
HasPid(pid) == pid \notin {NoPid, AbsentPid, PyNone}

\* label A is registered with a person_id, label B is not
Labels == {"A", "B"}

\* helpers.time_utils.now_iso: ISO-8601 with seconds precision
NowIso(t) == (t \div 1000) * 1000

\* db.attendance_repo._normalize_ts(None): datetime.now(utc).isoformat(),
\* which keeps the sub-second part
NormalizeTsNow(t) == t

\* helpers.time_utils.parse_att_ts followed by .timestamp(): the instant a
\* timestamp text denotes; None (here -1) when the text does not parse
BadTs == -1

ParseAttTs(ts) == IF ts >= 0 THEN ts ELSE BadTs

VARIABLES
    clock,          \* time.time(), ms
    reg_list,       \* the register list: <<[id, label, person_id]>>
    att_db_cache,   \* attendance_service._ATT_DB_CACHE: [present, db]
    store,          \* rows of the attendance_events table
    store_seq,      \* the table's id sequence (server-generated ids)
    tasks,          \* write-through tasks handed to the executor
    nops,           \* records admitted and admin operations saved so far
    admitted,       \* history: the admissions made by mark_attendance
    reached,        \* history: indexes of admitted, in order of reaching store
    last_op,        \* the operation that made the last step, with its outcome
    sessions,       \* sid -> "connected" or "gone" (socket.io never reuses a sid)
    att_cfg,        \* main_fastapi._att_cfg
    att_last_proc,  \* main_fastapi._att_last_proc
    att_prev_set,   \* main_fastapi._att_prev_set
    att_hold_frames,\* main_fastapi._att_hold_frames
    att_processing, \* main_fastapi._att_processing
    msg_delay_until,\* main_fastapi._msg_delay_until
    frames,         \* att_frame coroutines suspended at an await
    accepted,       \* history: the frames accepted for processing
    nframes,        \* att_frame events received so far
    rf_table,       \* rows of the register_faces table, in insertion order
    reg_cache,      \* the lru_cache of main_fastapi._load_reg_list_cached
    rdb_cache,      \* register_db._REGISTER_CACHE: [present, data]
    engine_db,      \* engine.db, the identity index: label -> face
    photos,         \* object paths held by the photo store
    photo_seq,      \* object paths handed out so far
    pid_seq,        \* person ids generated so far
    preview_cache,  \* main_fastapi._REGISTER_PREVIEW_CACHE: token -> entry
    rops,           \* register operations so far
    engine_lock,    \* core.runtime.ENGINE_LOCK: its owner and hold count
    thr,            \* thread -> the engine call it is in
    ncalls,         \* engine calls begun so far
    rq,             \* a _QueryProxy execute() call in progress
    calc,           \* the last call of a function of the schedule, the index or the
                    \* preview cache: its arguments and what it returned
    enrolls         \* register_face coroutines: handler -> its position and locals

streamVars == <<sessions, att_cfg, att_last_proc, att_prev_set, att_hold_frames,
                att_processing, msg_delay_until, frames, accepted, nframes>>

regVars == <<rf_table, reg_cache, rdb_cache, engine_db, photos, photo_seq, pid_seq,
             preview_cache, rops>>

lockVars == <<engine_lock, thr, ncalls>>

extVars == <<regVars, lockVars, rq, calc, enrolls>>

attState == <<clock, reg_list, extVars, att_db_cache, store, store_seq, tasks, nops,
                         admitted, reached>>

attVars == <<clock, reg_list, extVars, att_db_cache, store, store_seq, tasks,
             nops, admitted, reached, last_op>>

vars == <<attVars, streamVars>>

(***************************************************************************)
(* The register list and person-id resolution.                             *)
(***************************************************************************)
\* main_fastapi._label_to_person_id and services.people.label_to_person_id:
\* the person_id of the first register entry with that label
LabelToPersonId(label) ==
    IF \E i \in DOMAIN reg_list : reg_list[i].label = label
    THEN LET i == CHOOSE i \in DOMAIN reg_list :
                    /\ reg_list[i].label = label
                    /\ \A j \in DOMAIN reg_list : reg_list[j].label = label => i <= j
         IN reg_list[i].person_id
    ELSE NoPid

(***************************************************************************)
(* The attendance snapshot (db) and its derived maps.                      *)
(***************************************************************************)
EmptyDb == [att_events |-> <<>>, att_last |-> EmptyMap, att_last_id |-> EmptyMap,
            att_count |-> EmptyMap, att_count_id |-> EmptyMap, att_event_seq |-> 0]

NoCache == [present |-> FALSE, db |-> EmptyDb]

RowNewer(r, q) == r.ts > q.ts \/ (r.ts = q.ts /\ r.id >= q.id)

RECURSIVE SortRowsDesc(_)
SortRowsDesc(S) ==
    IF S = {} THEN <<>>
    ELSE LET m == CHOOSE r \in S : \A q \in S : RowNewer(r, q)
         IN <<m>> \o SortRowsDesc(S \ {m})

\* _fetch_attendance_events: the newest `limit` rows, by ts descending
FetchAttendanceEvents(rows, limit) == Take(SortRowsDesc(rows), limit)

\* the loop of load_attendance_db over the fetched rows
LoadLast(events, key) ==
    LET ks == {events[i][key] : i \in {j \in DOMAIN events :
                     (IF key = "pid" THEN HasPid(events[j].pid) ELSE events[j].label # "")
                     /\ ParseAttTs(events[j].ts) # BadTs}}
    IN [k \in ks |-> SetMax({ParseAttTs(events[i].ts) : i \in {j \in DOMAIN events :
                     events[j][key] = k /\ ParseAttTs(events[j].ts) # BadTs}})]

LoadCount(events, key) ==
    LET ks == {events[i][key] : i \in {j \in DOMAIN events :
                     (IF key = "pid" THEN HasPid(events[j].pid) ELSE events[j].label # "")
                     /\ ParseAttTs(events[j].ts) # BadTs}}
    IN [k \in ks |-> Cardinality({j \in DOMAIN events :
                     events[j][key] = k /\ ParseAttTs(events[j].ts) # BadTs})]

LoadMaxSeq(events) == IF events = <<>> THEN 0 ELSE Max2(0, SetMax({events[i].id : i \in DOMAIN events}))

\* load_attendance_db, the rebuild from the durable store
LoadFromStore(rows) ==
    LET fetched == FetchAttendanceEvents(rows, MaxAttEvents)
        events == [i \in DOMAIN fetched |->
                     [fetched[i] EXCEPT !.pid = IF @ = NoPid THEN AbsentPid ELSE @]]
    IN [att_events |-> events,
        att_last |-> LoadLast(events, "label"),
        att_last_id |-> LoadLast(events, "pid"),
        att_count |-> LoadCount(events, "label"),
        att_count_id |-> LoadCount(events, "pid"),
        att_event_seq |-> LoadMaxSeq(events)]

\* load_attendance_db(force=False): the cached snapshot when there is one
LoadAttendanceDb == IF att_db_cache.present THEN att_db_cache.db ELSE LoadFromStore(store)

SetAttendanceCache(db) == [present |-> TRUE, db |-> db]

(***************************************************************************)
(* The admission gate and record.                                          *)
(***************************************************************************)
\* Python's round() of n/d for n >= 0: to the nearest integer, halves to even
RoundHalfEven(n, d) ==
    LET q == n \div d
        r == n % d
    IN IF 2 * r < d THEN q
       ELSE IF 2 * r > d THEN q + 1
       ELSE IF q % 2 = 0 THEN q ELSE q + 1

\* the cooldown reference both _check_mark_block and mark_attendance read:
\* att_last_id[pid] when the label resolves to a person_id, else att_last[label]
CooldownRef(db, label) ==
    LET pid == LabelToPersonId(label)
    IN IF pid # NoPid THEN Get(db.att_last_id, pid, 0) ELSE Get(db.att_last, label, 0)

\* a gate that takes a reference in the future for a running cooldown
CheckMarkBlockNoSkew(db, label, now) ==
    LET last_ts == CooldownRef(db, label)
        remaining == CooldownMs - (now - last_ts)
    IN IF last_ts = 0 \/ remaining <= 0
       THEN [can |-> TRUE, code |-> "ok", label |-> label, last_ts |-> last_ts,
             until_ts |-> 0, remaining_sec |-> 0]
       ELSE [can |-> FALSE, code |-> "cooldown", label |-> label, last_ts |-> last_ts,
             until_ts |-> last_ts + CooldownMs,
             remaining_sec |-> Max2(0, RoundHalfEven(remaining, 1000))]

\* main_fastapi._check_mark_block(label) on snapshot db at time now
CheckMarkBlock(db, label, now) ==
    LET last_ts == CooldownRef(db, label)
        diff0 == now - last_ts
        diff == IF diff0 < 0 THEN CooldownMs ELSE diff0
        remaining == CooldownMs - diff
    IN IF last_ts = 0
       THEN [can |-> TRUE, code |-> "ok", label |-> label, last_ts |-> 0,
             until_ts |-> 0, remaining_sec |-> 0]
       ELSE IF remaining > 0
       THEN [can |-> FALSE, code |-> "cooldown", label |-> label, last_ts |-> last_ts,
             until_ts |-> last_ts + CooldownMs,
             remaining_sec |-> Max2(0, RoundHalfEven(remaining, 1000))]
       ELSE [can |-> TRUE, code |-> "ok", label |-> label, last_ts |-> last_ts,
             until_ts |-> 0, remaining_sec |-> 0]

\* mark_attendance: whether the cooldown test lets the mark through
MarkAdmits(db, label, now) ==
    LET last_ts == CooldownRef(db, label)
        elapsed0 == now - last_ts
        elapsed == IF elapsed0 < 0 THEN CooldownMs ELSE elapsed0
    IN last_ts = 0 \/ ~(elapsed < CooldownMs)

\* mark_attendance: the snapshot after an admitted mark
MarkDb(db, label, now) ==
    LET pid == LabelToPersonId(label)
        seq == db.att_event_seq + 1
        event == [id |-> seq, label |-> label,
                  pid |-> IF pid # NoPid THEN pid ELSE AbsentPid, ts |-> NowIso(now)]
    IN [att_events |-> Take(<<event>> \o db.att_events, MaxAttEvents),
        att_last |-> Put(db.att_last, label, now),
        att_last_id |-> IF pid # NoPid THEN Put(db.att_last_id, pid, now) ELSE db.att_last_id,
        att_count |-> Put(db.att_count, label, Get(db.att_count, label, 0) + 1),
        att_count_id |-> IF pid # NoPid
                         THEN Put(db.att_count_id, pid, Get(db.att_count_id, pid, 0) + 1)
                         ELSE db.att_count_id,
        att_event_seq |-> seq]

\* a mirror insert that never reaches the table
InsertEventLost(rows, seq, label, pid, now) == rows

\* db.attendance_repo.insert_event: a row with a server-generated id; the
\* insert fails (and is only logged by the callers) when that id is taken
InsertEvent(rows, seq, label, pid, now) ==
    LET row == [id |-> seq + 1, label |-> label, pid |-> pid, ts |-> NormalizeTsNow(now)]
    IN IF \E r \in rows : r.id = row.id THEN rows ELSE rows \cup {row}

\* _schedule_attendance_persist: a deep copy handed to the executor
NewTask(kind, label, id, db) ==
    [kind |-> kind, label |-> label, id |-> id, snap |-> db, pc |-> "fetch", existing |-> {}]

\* the admissions whose event row is in the durable store
InStore(rows, adm) ==
    \E r \in rows :
        /\ r.label = adm.label
        /\ r.pid = adm.pid
        /\ \/ r.id = adm.mid /\ r.ts = NormalizeTsNow(adm.t)
           \/ r.id = adm.id /\ r.ts = adm.ts

RECURSIVE AppendAll(_, _)
AppendAll(seq, S) ==
    IF S = {} THEN seq
    ELSE LET m == CHOOSE x \in S : \A y \in S : x <= y
         IN AppendAll(Append(seq, m), S \ {m})

NextReached(rch, adm, rows) ==
    AppendAll(rch, {i \in DOMAIN adm : i \notin Range(rch) /\ InStore(rows, adm[i])})

\* last_op after a step that no property singles out
Quiet == [op |-> "", label |-> "", id |-> 0]

\* the asyncio loop is free: admin_attendance_clear is a coroutine that runs
\* save_attendance_db without yielding, so nothing else runs on the loop
LoopFree == \A i \in DOMAIN tasks : tasks[i].kind # "clear"

\* the part of the state that _mark_attendance reads and writes
MarkState == [cache |-> att_db_cache, store |-> store, store_seq |-> store_seq,
              tasks |-> tasks, admitted |-> admitted, ok |-> FALSE]

\* main_fastapi._mark_attendance(label, score) at time now:
\* att_service.mark_attendance, then the mirror insert
MarkAttendance(S, label, now) ==
    LET db == IF S.cache.present THEN S.cache.db ELSE LoadFromStore(S.store)
        pid == LabelToPersonId(label)
        ndb == MarkDb(db, label, now)
    IN IF MarkAdmits(db, label, now)
       THEN [cache |-> SetAttendanceCache(ndb),
             store |-> InsertEvent(S.store, S.store_seq, label, pid, now),
             store_seq |-> S.store_seq + 1,
             tasks |-> Append(S.tasks, NewTask("persist", label, ndb.att_event_seq, ndb)),
             admitted |-> Append(S.admitted,
                            [id |-> ndb.att_event_seq, mid |-> S.store_seq + 1,
                             label |-> label, pid |-> pid, t |-> now, ts |-> NowIso(now),
                             ref |-> CooldownRef(db, label)]),
             ok |-> TRUE]
       ELSE [S EXCEPT !.cache = SetAttendanceCache(db), !.ok = FALSE]

(***************************************************************************)
(* Actions of the attendance store.                                        *)
(***************************************************************************)
TickSteps == {500, CooldownMs - 500}

Tick(d) ==
    /\ clock + d <= Epoch0 + Horizon
    /\ clock' = clock + d
    /\ last_op' = Quiet
    /\ UNCHANGED <<reg_list, extVars, streamVars, att_db_cache, store, store_seq, tasks, nops,
                   admitted, reached>>

\* routes.public_vision.recognize_image with mark=1, one recognized label
Record(label) ==
    /\ LoopFree
    /\ nops < MaxOps
    /\ Len(tasks) < MaxTasks
    /\ LET S == MarkAttendance(MarkState, label, clock)
       IN /\ att_db_cache' = S.cache
          /\ store' = S.store
          /\ store_seq' = S.store_seq
          /\ tasks' = S.tasks
          /\ admitted' = S.admitted
          /\ nops' = IF S.ok THEN nops + 1 ELSE nops
          /\ reached' = NextReached(reached, S.admitted, S.store)
          /\ last_op' = [op |-> IF S.ok THEN "record" ELSE "rejected", label |-> label, id |-> 0]
    /\ UNCHANGED <<clock, reg_list, extVars, streamVars>>

(***************************************************************************)
(* save_attendance_db, one store request per step.  It runs in an executor *)
(* thread (write-through) or in the thread of an admin route.              *)
(***************************************************************************)
\* desired_events: the first MAX_ATT_EVENTS events with a positive id
DesiredEvents(db) ==
    LET evs == Take(db.att_events, MaxAttEvents)
    IN {[id |-> evs[i].id, label |-> evs[i].label,
         pid |-> IF HasPid(evs[i].pid) THEN evs[i].pid ELSE NoPid,
         ts |-> evs[i].ts] : i \in {j \in DOMAIN evs : evs[j].id > 0}}

Ids(rows) == {r.id : r \in rows}

IdsToDelete(task) == Ids(task.existing) \ Ids(DesiredEvents(task.snap))

EventsToInsert(task) == {e \in DesiredEvents(task.snap) : e.id \notin Ids(task.existing)}

EventsToUpdate(task) ==
    {e \in DesiredEvents(task.snap) : e.id \in Ids(task.existing) /\ e \notin task.existing}

\* the next point of save_attendance_db that issues a request, after `pc`
NextPc(task, pc) ==
    IF pc = "fetch" /\ IdsToDelete(task) # {} THEN "delete"
    ELSE IF pc \in {"fetch", "delete"} /\ EventsToInsert(task) # {} THEN "insert"
    ELSE IF pc \in {"fetch", "delete", "insert"} /\ EventsToUpdate(task) # {} THEN "update"
    ELSE "done"

RemoveAt(s, i) == SubSeq(s, 1, i - 1) \o SubSeq(s, i + 1, Len(s))

StoreStep(i, pc, rows) ==
    /\ i \in DOMAIN tasks
    /\ tasks[i].pc = pc
    /\ store' = rows
    /\ tasks' = [tasks EXCEPT ![i].pc = NextPc(tasks[i], pc)]
    /\ reached' = NextReached(reached, admitted, rows)
    /\ last_op' = Quiet
    /\ UNCHANGED <<clock, reg_list, extVars, streamVars, att_db_cache, store_seq, nops, admitted>>

\* existing_rows = _fetch_attendance_events(MAX_ATT_EVENTS)
PersistFetch(i) ==
    /\ i \in DOMAIN tasks
    /\ tasks[i].pc = "fetch"
    /\ LET t == [tasks[i] EXCEPT !.existing = Range(FetchAttendanceEvents(store, MaxAttEvents))]
       IN tasks' = [tasks EXCEPT ![i] = [t EXCEPT !.pc = NextPc(t, "fetch")]]
    /\ last_op' = Quiet
    /\ UNCHANGED <<clock, reg_list, extVars, streamVars, att_db_cache, store, store_seq, nops,
                   admitted, reached>>

\* delete().in_("id", batch)
PersistDelete(i) ==
    StoreStep(i, "delete", {r \in store : r.id \notin IdsToDelete(tasks[i])})

\* insert(events_to_insert): one statement, which fails as a whole on a
\* duplicate id; the exception is caught and logged
PersistInsert(i) ==
    StoreStep(i, "insert",
              IF Ids(EventsToInsert(tasks[i])) \cap Ids(store) # {}
              THEN store
              ELSE store \cup EventsToInsert(tasks[i]))

\* upsert(events_to_update)
PersistUpdate(i) ==
    StoreStep(i, "update",
              {r \in store : r.id \notin Ids(EventsToUpdate(tasks[i]))}
                  \cup EventsToUpdate(tasks[i]))

\* the last line of save_attendance_db: _set_attendance_cache(db)
PersistDone(i) ==
    /\ i \in DOMAIN tasks
    /\ tasks[i].pc = "done"
    /\ att_db_cache' = SetAttendanceCache(tasks[i].snap)
    /\ tasks' = RemoveAt(tasks, i)
    /\ last_op' = [op |-> tasks[i].kind, label |-> tasks[i].label, id |-> tasks[i].id]
    /\ UNCHANGED <<clock, reg_list, extVars, streamVars, store, store_seq, nops, admitted, reached>>

(***************************************************************************)
(* Admin operations on events.  Each handler loads the snapshot, changes   *)
(* its copy and calls save_attendance_db on it.                            *)
(***************************************************************************)
\* the person an event counts for when the derived maps are rebuilt:
\*   update, clear: str(ev.get("person_id") or _label_to_person_id(lab) or "")
\*   delete:        str(ev.get("person_id", "")) or (_label_to_person_id(lab) or "")
RebuildPid(ev, op) ==
    IF HasPid(ev.pid) THEN ev.pid
    ELSE IF op = "delete" /\ ev.pid = PyNone THEN "None"
    ELSE LabelToPersonId(ev.label)

Counted(events) == {j \in DOMAIN events : events[j].label # "" /\ ParseAttTs(events[j].ts) # BadTs}

\* the rebuild loop of admin_attendance_event_update / _delete / _clear
RebuildMaps(db, events, op) ==
    LET idx == Counted(events)
        labs == {events[j].label : j \in idx}
        pids == {RebuildPid(events[j], op) : j \in idx} \ {NoPid}
        OfLab(l) == {j \in idx : events[j].label = l}
        OfPid(q) == {j \in idx : RebuildPid(events[j], op) = q}
    IN [att_events |-> events,
        att_last |-> [l \in labs |-> SetMax({ParseAttTs(events[j].ts) : j \in OfLab(l)})],
        att_last_id |-> [q \in pids |-> SetMax({ParseAttTs(events[j].ts) : j \in OfPid(q)})],
        att_count |-> [l \in labs |-> Cardinality(OfLab(l))],
        att_count_id |-> [q \in pids |-> Cardinality(OfPid(q))],
        att_event_seq |-> db.att_event_seq]

\* timestamps an admin request may carry
TsInputs == {"none", "future", "bad"}

TsText(choice) ==
    IF choice = "bad" THEN BadTs
    ELSE IF choice = "future" THEN NowIso(clock) + CooldownMs
    ELSE NowIso(clock)

\* a handler that raised (400, 404) after load_attendance_db
AdminRejected(op, label, id) ==
    /\ att_db_cache' = SetAttendanceCache(LoadAttendanceDb)
    /\ last_op' = [op |-> "rejected", label |-> label, id |-> id]
    /\ UNCHANGED <<clock, reg_list, extVars, streamVars, store, store_seq, tasks, nops,
                   admitted, reached>>

\* a handler that reached save_attendance_db(db)
AdminSaves(op, label, id, db) ==
    /\ att_db_cache' = SetAttendanceCache(LoadAttendanceDb)
    /\ tasks' = Append(tasks, NewTask(op, label, id, db))
    /\ nops' = nops + 1
    /\ last_op' = [op |-> "admin", label |-> label, id |-> id]
    /\ UNCHANGED <<clock, reg_list, extVars, streamVars, admitted>>

\* admin_attendance_event_create
AdminCreateDb(db, lab, ts) ==
    LET seq == db.att_event_seq + 1
        pid == LabelToPersonId(lab)
        ev == [id |-> seq, label |-> lab, pid |-> pid, ts |-> ts]
        last1 == Put(db.att_last, lab, Max2(Get(db.att_last, lab, 0), ParseAttTs(ts)))
        count1 == Put(db.att_count, lab, Get(db.att_count, lab, 0) + 1)
    IN [att_events |-> <<ev>> \o db.att_events,
        \* lines 2379 and 2393: the maximum is taken twice
        att_last |-> Put(last1, lab, Max2(Get(last1, lab, 0), ParseAttTs(ts))),
        att_last_id |-> IF pid # NoPid
                        THEN Put(db.att_last_id, pid, Max2(Get(db.att_last_id, pid, 0), ParseAttTs(ts)))
                        ELSE db.att_last_id,
        \* lines 2382 and 2394: the count is incremented twice
        att_count |-> Put(count1, lab, Get(count1, lab, 0) + 1),
        att_count_id |-> IF pid # NoPid
                         THEN Put(db.att_count_id, pid, Get(db.att_count_id, pid, 0) + 1)
                         ELSE db.att_count_id,
        att_event_seq |-> seq]

AdminCreate(lab, choice) ==
    /\ nops < MaxOps
    /\ Len(tasks) < MaxTasks
    /\ LET db == LoadAttendanceDb
           ts == TsText(choice)
       IN IF ParseAttTs(ts) = BadTs
          THEN AdminRejected("create", lab, 0)
          ELSE /\ AdminSaves("create", lab, db.att_event_seq + 1, AdminCreateDb(db, lab, ts))
               /\ store' = InsertEvent(store, store_seq, lab, LabelToPersonId(lab), clock)
               /\ store_seq' = store_seq + 1
               /\ reached' = NextReached(reached, admitted, store')

FirstWithId(events, id) ==
    CHOOSE i \in DOMAIN events :
        events[i].id = id /\ \A j \in DOMAIN events : events[j].id = id => i <= j

\* the patches an update request may carry; "none" leaves the field alone
Patches == {[label |-> "A", ts |-> "none"], [label |-> "B", ts |-> "none"],
            [label |-> "none", ts |-> "future"], [label |-> "none", ts |-> "bad"]}

\* admin_attendance_event_update
AdminUpdate(id, lab, choice) ==
    /\ nops < MaxOps
    /\ Len(tasks) < MaxTasks
    /\ LET db == LoadAttendanceDb
           events == db.att_events
       IN IF ~(\E i \in DOMAIN events : events[i].id = id) \/ choice = "bad"
          THEN AdminRejected("update", lab, id)
          ELSE LET i == FirstWithId(events, id)
                   found == events[i]
                   pid == IF LabelToPersonId(lab) # NoPid THEN LabelToPersonId(lab)
                          ELSE IF found.pid = AbsentPid THEN PyNone
                          ELSE found.pid
                   f1 == IF lab = "none" THEN found
                         ELSE [found EXCEPT !.label = lab, !.pid = pid]
                   f2 == IF choice = "none" THEN f1 ELSE [f1 EXCEPT !.ts = TsText(choice)]
               IN /\ AdminSaves("update", f2.label, id,
                                RebuildMaps(db, [events EXCEPT ![i] = f2], "update"))
                  /\ UNCHANGED <<store, store_seq, reached>>

RECURSIVE SelectSeq2(_, _)
SelectSeq2(s, keep) ==
    IF s = <<>> THEN <<>>
    ELSE (IF 1 \in keep THEN <<Head(s)>> ELSE <<>>)
             \o SelectSeq2(Tail(s), {k - 1 : k \in keep \ {1}})

\* admin_attendance_event_delete
AdminDelete(id) ==
    /\ nops < MaxOps
    /\ Len(tasks) < MaxTasks
    /\ LET db == LoadAttendanceDb
           events == db.att_events
       IN IF ~(\E i \in DOMAIN events : events[i].id = id)
          THEN AdminRejected("delete", "", id)
          ELSE LET removed == events[SetMax({i \in DOMAIN events : events[i].id = id})]
                   new_events == SelectSeq2(events, {i \in DOMAIN events : events[i].id # id})
               IN /\ AdminSaves("delete", removed.label, id,
                                RebuildMaps(db, new_events, "delete"))
                  /\ UNCHANGED <<store, store_seq, reached>>

\* admin_attendance_clear; label "" clears every event
AdminClear(label) ==
    /\ LoopFree
    /\ nops < MaxOps
    /\ Len(tasks) < MaxTasks
    /\ LET db == LoadAttendanceDb
           events == db.att_events
           new_events == IF label # ""
                         THEN SelectSeq2(events, {i \in DOMAIN events : events[i].label # label})
                         ELSE <<>>
       IN /\ AdminSaves("clear", label, 0, RebuildMaps(db, new_events, "clear"))
          /\ UNCHANGED <<store, store_seq, reached>>

(***************************************************************************)
(* The attendance store under records, admin operations and write-through. *)
(***************************************************************************)
RegList0 == <<[id |-> 1, label |-> "A", person_id |-> "p-a"]>>

\* the rows the table holds when the service starts: A was last seen more
\* than a cooldown ago, B (no person_id) less than a cooldown ago
StoreRows0 == {[id |-> 1, label |-> "A", pid |-> "p-a", ts |-> Epoch0 - CooldownMs - 1000],
               [id |-> 2, label |-> "B", pid |-> NoPid, ts |-> Epoch0 - 1000]}

(***************************************************************************)
(* The state of the register, the engine lock and a storage request when   *)
(* the process starts.                                                     *)
(***************************************************************************)
\* Python's None in an id, a person_id or a photo_path
NoId == 0

\* no function of the schedule, the index or the preview cache was called yet
NoCalc == [op |-> "none"]

\* the faces a picture can show
Faces == {"f1", "f2"}

\* a register_faces row: [id, person_id, label, emb, photo_path]
Row(id, pid, label, emb, path) ==
    [id |-> id, person_id |-> pid, label |-> label, emb |-> emb, photo_path |-> path]

\* the roster with one identity
RfTable0 == <<Row(1, 1, "Alice", "f1", 1)>>

\* the roster with a second identity
RfTable1 == <<Row(1, 1, "Alice", "f1", 1), Row(2, 2, "Bob", "f3", 2)>>

NoList == [present |-> FALSE, list |-> <<>>]

\* the index after startup: one entry for every row with an embedding
IndexOf(rows) == [l \in {rows[i].label : i \in DOMAIN rows} |->
                     rows[CHOOSE i \in DOMAIN rows : rows[i].label = l].emb]

\* the entry register_face_preview stored for a picture of f2 that matched
\* nobody
PreviewCache0 == [t \in {"t1"} |-> [face |-> "f2", faces |-> <<"Unknown">>]]

RegInit(rows) ==
    /\ rf_table = rows
    /\ reg_cache = NoList
    /\ rdb_cache = NoList
    /\ engine_db = IndexOf(rows)
    /\ photos = {rows[i].photo_path : i \in DOMAIN rows}
    /\ photo_seq = Len(rows)
    /\ pid_seq = Len(rows)
    /\ preview_cache = PreviewCache0
    /\ rops = 0

Threads == {"loop", "w1", "w2"}

Idle == [op |-> "idle", pc |-> "idle", locked |-> FALSE]

LockInit ==
    /\ engine_lock = [owner |-> "", count |-> 0]
    /\ thr = [t \in Threads |-> Idle]
    /\ ncalls = 0

RetryInit(attempts) ==
    rq = [attempts |-> attempts, i |-> 0, calls |-> <<>>,
          last_err |-> [kind |-> "", status |-> 0],
          pc |-> "loop", result |-> [kind |-> "", status |-> 0]]

BaseInit(rows) ==
    /\ clock = Epoch0
    /\ reg_list = RegList0
    /\ att_db_cache = NoCache
    /\ store = rows
    /\ store_seq = Cardinality(rows)
    /\ tasks = <<>>
    /\ nops = 0
    /\ admitted = <<>>
    /\ reached = <<>>
    /\ last_op = [op |-> "init", label |-> "", id |-> 0]
    /\ calc = NoCalc
    /\ enrolls = EmptyMap
    /\ sessions = EmptyMap
    /\ att_cfg = EmptyMap
    /\ att_last_proc = EmptyMap
    /\ att_prev_set = EmptyMap
    /\ att_hold_frames = EmptyMap
    /\ att_processing = {}
    /\ msg_delay_until = EmptyMap
    /\ frames = {}
    /\ accepted = <<>>
    /\ nframes = 0

InitWith(rows) == BaseInit(rows) /\ RegInit(RfTable0) /\ LockInit /\ RetryInit(1)

Init == InitWith(StoreRows0)

CachedIds == {LoadAttendanceDb.att_events[i].id : i \in DOMAIN LoadAttendanceDb.att_events}

\* the budget of the full specification
Budget == nops < MaxStoreOps

Next ==
    \/ \E d \in TickSteps : Tick(d)
    \/ \E l \in Labels : Budget /\ Record(l)
    \/ \E l \in Labels, c \in TsInputs : Budget /\ AdminCreate(l, c)
    \/ \E id \in CachedIds \cup {0}, p \in Patches : Budget /\ AdminUpdate(id, p.label, p.ts)
    \/ \E id \in CachedIds \cup {0} : Budget /\ AdminDelete(id)
    \/ \E l \in {"", "A"} : Budget /\ AdminClear(l)
    \/ \E i \in 1..MaxTasks : PersistFetch(i)
    \/ \E i \in 1..MaxTasks : PersistDelete(i)
    \/ \E i \in 1..MaxTasks : PersistInsert(i)
    \/ \E i \in 1..MaxTasks : PersistUpdate(i)
    \/ \E i \in 1..MaxTasks : PersistDone(i)

Spec == Init /\ [][Next]_vars

(***************************************************************************)
(* Records and their write-through tasks alone.                            *)
(***************************************************************************)
NextWT ==
    \/ \E d \in TickSteps : Tick(d)
    \/ \E l \in Labels : Record(l)
    \/ \E i \in 1..MaxTasks : PersistFetch(i)
    \/ \E i \in 1..MaxTasks : PersistDelete(i)
    \/ \E i \in 1..MaxTasks : PersistInsert(i)
    \/ \E i \in 1..MaxTasks : PersistUpdate(i)
    \/ \E i \in 1..MaxTasks : PersistDone(i)

SpecWT == Init /\ [][NextWT]_vars

(***************************************************************************)
(* The admission gate on its own: checks against records and admin inserts.*)
(***************************************************************************)
\* att_frame line 1296: can, code, info = _check_mark_block(label)
Check(label) ==
    /\ LoopFree
    /\ att_db_cache' = SetAttendanceCache(LoadAttendanceDb)
    /\ last_op' = [op |-> "check", label |-> label, id |-> 0,
                   out |-> CheckMarkBlock(LoadAttendanceDb, label, clock)]
    /\ UNCHANGED <<clock, reg_list, extVars, streamVars, store, store_seq, tasks, nops, admitted, reached>>

NextGate ==
    \/ \E d \in TickSteps : Tick(d)
    \/ \E l \in Labels : Check(l)
    \/ \E l \in Labels : Budget /\ Record(l)
    \/ \E l \in Labels, c \in TsInputs : Budget /\ AdminCreate(l, c)
    \/ \E i \in 1..MaxTasks : PersistFetch(i)
    \/ \E i \in 1..MaxTasks : PersistDelete(i)
    \/ \E i \in 1..MaxTasks : PersistInsert(i)
    \/ \E i \in 1..MaxTasks : PersistUpdate(i)
    \/ \E i \in 1..MaxTasks : PersistDone(i)

SpecGate == Init /\ [][NextGate]_vars

(***************************************************************************)
(* Properties of the attendance store.                                     *)
(***************************************************************************)
CachedDb == att_db_cache.db

\* the derived maps as the events define them: by label, and by the
\* person_id an event carries
DerivedMaps(events) ==
    [att_last |-> LoadLast(events, "label"),
     att_last_id |-> LoadLast(events, "pid"),
     att_count |-> LoadCount(events, "label"),
     att_count_id |-> LoadCount(events, "pid")]

MapsOf(db) ==
    [att_last |-> db.att_last, att_last_id |-> db.att_last_id,
     att_count |-> db.att_count, att_count_id |-> db.att_count_id]

\* C1: two admissions of record for the same person_id are at least
\* cooldown_sec apart, unless the earlier one lay in the future of the later
\* call's clock
C1_AdmissionsCooldownApart ==
    \A i, j \in DOMAIN admitted :
        (/\ i < j
         /\ admitted[i].pid = admitted[j].pid
         /\ admitted[i].pid # NoPid
         /\ ~(admitted[i].t > admitted[j].t))
        => admitted[j].t - admitted[i].t >= CooldownMs

\* C2: whenever a snapshot is cached, att_last / att_count are the maximum
\* timestamp / the number of the cached events of each label, and
\* att_last_id / att_count_id likewise of each person_id
C2_MapsMatchEvents ==
    att_db_cache.present => MapsOf(CachedDb) = DerivedMaps(CachedDb.att_events)

\* what the specification says check returns, for reference ref at time now
AdmitsBySpec(ref, now) == ref = 0 \/ now - ref >= CooldownMs \/ ref > now

CheckedRef == CooldownRef(CachedDb, last_op.label)

C3_Decision ==
    last_op.op = "check" =>
        /\ last_op.out.can <=> AdmitsBySpec(CheckedRef, clock)
        /\ last_op.out.can => last_op.out.code = "ok"
        /\ ~last_op.out.can =>
              /\ last_op.out.code = "cooldown"
              /\ last_op.out.until_ts = CheckedRef + CooldownMs

C3_NothingMarked ==
    last_op'.op = "check" =>
        /\ admitted' = admitted
        /\ tasks' = tasks
        /\ store' = store
        /\ att_db_cache'.db.att_events = LoadAttendanceDb.att_events
        /\ att_db_cache'.db.att_count = LoadAttendanceDb.att_count

\* C3 as the specification states it: remaining_sec is exactly
\* cooldown_sec - (now - ref)
C3_CheckExactRemaining ==
    /\ [](C3_Decision)
    /\ []((last_op.op = "check" /\ ~last_op.out.can) =>
            Ms(last_op.out.remaining_sec) = CooldownMs - (clock - CheckedRef))
    /\ [][C3_NothingMarked]_vars

\* C3: check admits with code ok iff there is no reference, or the cooldown
\* has elapsed, or the reference lies in the future; a denial has code
\* cooldown, until_ts = ref + cooldown_sec and remaining_sec the whole number
\* of seconds nearest to cooldown_sec - (now - ref) (a half goes to the even
\* neighbour); a check marks nothing and leaves events and counts alone
C3_CheckRoundedRemaining ==
    /\ [](C3_Decision)
    /\ []((last_op.op = "check" /\ ~last_op.out.can) =>
            last_op.out.remaining_sec
                = RoundHalfEven(CooldownMs - (clock - CheckedRef), 1000))
    /\ [][C3_NothingMarked]_vars

\* a check denied with a remaining time that is not a whole number of seconds
C3_Witness ==
    /\ last_op.op = "check"
    /\ ~last_op.out.can
    /\ (CooldownMs - (clock - CheckedRef)) % 1000 # 0

\* C4: after an admin edit, delete or clear has saved, the four maps are the
\* maps of the remaining events; and after the only event of a label was
\* deleted the label has no last entry, no positive count, and check admits it
C4_RebuiltAfterAdminOp ==
    last_op.op \in {"update", "delete", "clear"} =>
        /\ MapsOf(CachedDb) = DerivedMaps(CachedDb.att_events)
        /\ (/\ last_op.op = "delete"
            /\ \A i \in DOMAIN CachedDb.att_events :
                   CachedDb.att_events[i].label # last_op.label)
           => /\ last_op.label \notin DOMAIN CachedDb.att_last
              /\ Get(CachedDb.att_count, last_op.label, 0) = 0
              /\ CheckMarkBlock(CachedDb, last_op.label, clock).can

TaskPending(adm) ==
    \E k \in DOMAIN tasks :
        tasks[k].kind = "persist" /\ tasks[k].id = adm.id /\ tasks[k].label = adm.label

AttMinIntervalMs == 150
\* LOGIN_MSG_DELAY_SEC, ms
LoginMsgDelayMs == 2000
\* attendance.min_cosine_accept, hundredths
MinCosineAccept == 60
\* att_frame events in a behaviour
MaxFrames == 3

Sids == {"s1"}

\* what _engine_recognize may return: rows of (label, score)
RecInputs ==
    {<<[label |-> "A", score |-> 90]>>,
     <<[label |-> "A", score |-> 90], [label |-> "B", score |-> 90]>>,
     <<[label |-> "Unknown", score |-> 0], [label |-> "B", score |-> 90],
       [label |-> "B", score |-> 70]>>,
     <<[label |-> "A", score |-> 50]>>}

\* _labels_set(rec, th)
LabelsSet(rec, th) ==
    {rec[i].label : i \in {j \in DOMAIN rec : rec[j].label # "Unknown" /\ rec[j].score >= th}}

\* a similarity that takes two empty sets for disjoint ones
JaccardEmptyZero(a, b) ==
    [num |-> Cardinality(a \cap b), den |-> Max2(1, Cardinality(a \cup b))]

\* _jaccard(a, b) as a fraction
Jaccard(a, b) ==
    IF a = {} /\ b = {} THEN [num |-> 1, den |-> 1]
    ELSE [num |-> Cardinality(a \cap b), den |-> Cardinality(a \cup b)]

\* sim < 0.7
BelowStable(sim) == 10 * sim.num < 7 * sim.den

\* the loop over rec of att_frame: the labels to check, first occurrences
\* only, in the order of rec
RECURSIVE DistinctLabels(_, _, _)
DistinctLabels(rec, th, seen) ==
    IF rec = <<>> THEN <<>>
    ELSE LET r == Head(rec)
         IN IF r.label = "Unknown" \/ r.score < th \/ r.label \in seen
            THEN DistinctLabels(Tail(rec), th, seen)
            ELSE <<r.label>> \o DistinctLabels(Tail(rec), th, seen \cup {r.label})

\* _create_blocked_info(label, code, info, allow_msgs).  until_txt is bound
\* only under allow_msgs, so the cooldown branch of the returned dict raises
\* UnboundLocalError when allow_msgs is false
CreateBlockedInfo(chk, allow_msgs) ==
    IF ~allow_msgs /\ chk.code = "cooldown"
    THEN [raised |-> TRUE, label |-> chk.label, code |-> chk.code, message |-> "",
          remaining_sec |-> 0]
    ELSE [raised |-> FALSE, label |-> chk.label, code |-> chk.code,
          message |-> IF allow_msgs /\ chk.code # "cooldown"
                      THEN "Tidak bisa absen sekarang" ELSE "",
          remaining_sec |-> chk.remaining_sec]

\* _cooldown_ready(lab) of att_frame, on the att_last map loaded before the loop
CooldownReady(att_last, lab, now_ts) ==
    LET last_ts == Get(att_last, lab, 0)
    IN \/ last_ts <= 0
       \/ last_ts > now_ts
       \/ now_ts - last_ts >= Max2(0, CooldownMs - 1)

\* the marking loop of att_frame over the candidates
RECURSIVE MarkCandidates(_, _, _, _, _, _)
MarkCandidates(S, cands, do_mark, new_labels, att_last, now_ts) ==
    IF cands = <<>> THEN [S |-> S, passed |-> <<>>, marked |-> <<>>]
    ELSE LET label == Head(cands)
             allow_this == do_mark \/ label \in new_labels
                              \/ CooldownReady(att_last, label, now_ts)
             S1 == IF allow_this THEN MarkAttendance(S, label, now_ts) ELSE S
             rest == MarkCandidates(S1, Tail(cands), do_mark, new_labels, att_last, now_ts)
         IN [S |-> rest.S,
             passed |-> (IF allow_this THEN <<label>> ELSE <<>>) \o rest.passed,
             marked |-> (IF allow_this /\ S1.ok THEN <<label>> ELSE <<>>) \o rest.marked]

Connected(sid) == sid \in DOMAIN sessions /\ sessions[sid] = "connected"

Drop(m, k) == [x \in (DOMAIN m) \ {k} |-> m[x]]

\* connect(sid, environ)
Connect(sid) ==
    /\ LoopFree
    /\ sid \notin DOMAIN sessions
    /\ sessions' = Put(sessions, sid, "connected")
    /\ att_cfg' = IF sid \in DOMAIN att_cfg THEN att_cfg
                  ELSE Put(att_cfg, sid, [th |-> MinCosineAccept, mark |-> TRUE])
    /\ msg_delay_until' = Put(msg_delay_until, sid, clock + LoginMsgDelayMs)
    /\ last_op' = Quiet
    /\ UNCHANGED <<attState, att_last_proc, att_prev_set, att_hold_frames,
                   att_processing, frames, accepted, nframes>>

\* disconnect(sid)
Disconnect(sid) ==
    /\ LoopFree
    /\ Connected(sid)
    /\ sessions' = Put(sessions, sid, "gone")
    /\ att_processing' = att_processing \ {sid}
    /\ att_last_proc' = Drop(att_last_proc, sid)
    /\ att_cfg' = Drop(att_cfg, sid)
    /\ att_prev_set' = Drop(att_prev_set, sid)
    /\ att_hold_frames' = Drop(att_hold_frames, sid)
    /\ msg_delay_until' = Drop(msg_delay_until, sid)
    /\ last_op' = Quiet
    /\ UNCHANGED <<attState, frames, accepted, nframes>>

\* att_cfg(sid, data) with data = {"mark": mark}.  The handler changes the
\* session's dict in place, and a suspended att_frame holds that same dict
AttCfg(sid, mark) ==
    /\ LoopFree
    /\ Connected(sid)
    /\ att_cfg' = Put(att_cfg, sid,
                      [Get(att_cfg, sid, [th |-> MinCosineAccept, mark |-> TRUE])
                           EXCEPT !.mark = mark])
    /\ frames' = {IF f.sid = sid /\ sid \in DOMAIN att_cfg
                  THEN [f EXCEPT !.cfg_mark = mark] ELSE f : f \in frames}
    /\ last_op' = Quiet
    /\ UNCHANGED <<attState, sessions, att_last_proc, att_prev_set,
                   att_hold_frames, att_processing, msg_delay_until, accepted, nframes>>

\* an entry test that looks at the interval only
FrameAcceptsAnyFlight(sid, now) ==
    ~(now - Get(att_last_proc, sid, 0) < AttMinIntervalMs)

\* att_frame up to its first await: the two early returns
FrameAccepts(sid, now) ==
    /\ ~(now - Get(att_last_proc, sid, 0) < AttMinIntervalMs)
    /\ sid \notin att_processing

\* _clamp_threshold
ClampThreshold(v) == Max2(MinCosineAccept, Min2(100, v))

\* att_frame(sid, data) up to its first await
FrameArrive(sid, decodable) ==
    /\ LoopFree
    /\ Connected(sid)
    /\ nframes < MaxFrames
    /\ nframes' = nframes + 1
    /\ IF ~FrameAccepts(sid, clock)
       THEN /\ last_op' = [op |-> "drop", label |-> "", id |-> nframes + 1, sid |-> sid,
                           event |-> "none"]
            /\ UNCHANGED <<att_processing, att_last_proc, accepted, frames>>
       ELSE LET cfg == Get(att_cfg, sid, [th |-> MinCosineAccept, mark |-> TRUE])
                f == [id |-> nframes + 1, sid |-> sid, now |-> clock,
                      th |-> ClampThreshold(cfg.th), mark0 |-> cfg.mark,
                      cfg_mark |-> cfg.mark,
                      pc |-> IF decodable THEN "recognize" ELSE "finish"]
            IN /\ att_processing' = att_processing \cup {sid}
               /\ att_last_proc' = Put(att_last_proc, sid, clock)
               /\ accepted' = Append(accepted, [id |-> f.id, sid |-> sid, now |-> clock])
               /\ frames' = frames \cup {f}
               /\ last_op' = [op |-> "accept", label |-> "", id |-> f.id, sid |-> sid,
                              event |-> IF decodable THEN "none" ELSE "att_error"]
    /\ UNCHANGED <<attState, sessions, att_cfg, att_prev_set, att_hold_frames,
                   msg_delay_until>>

\* the checks of att_frame over the distinct labels: blocked records and
\* candidates, up to the first blocked record that raises
RECURSIVE CheckLabels(_, _, _, _)
CheckLabels(labels, db, now_ts, allow_msgs) ==
    IF labels = <<>> THEN [raised |-> FALSE, blocked |-> <<>>, candidates |-> <<>>]
    ELSE LET chk == CheckMarkBlock(db, Head(labels), now_ts)
             info == CreateBlockedInfo(chk, allow_msgs)
             rest == CheckLabels(Tail(labels), db, now_ts, allow_msgs)
         IN IF chk.can
            THEN [rest EXCEPT !.candidates = <<Head(labels)>> \o @]
            ELSE IF info.raised
            THEN [raised |-> TRUE, blocked |-> <<>>, candidates |-> <<>>]
            ELSE [rest EXCEPT !.blocked = <<info>> \o @]

\* a hold that lasts two frames
HoldTwoFrames(hold, sid, marked, blocked) ==
    IF marked # <<>> \/ \E i \in DOMAIN blocked : blocked[i].message # ""
    THEN Put(hold, sid, 2) ELSE hold

\* att_frame: "if marked or any(b.get("message") for b in blocked_info)"
HoldAfterFrame(hold, sid, marked, blocked) ==
    IF marked # <<>> \/ \E i \in DOMAIN blocked : blocked[i].message # ""
    THEN Put(hold, sid, 1) ELSE hold

\* att_frame from the return of _engine_recognize to the emit of the result
FrameProcess(f, rec) ==
    /\ LoopFree
    /\ f \in frames
    /\ f.pc = "recognize"
    /\ Len(tasks) + Cardinality(LabelsSet(rec, f.th)) <= MaxTasks
    /\ LET sid == f.sid
           cur_set == LabelsSet(rec, f.th)
           prev_set == Get(att_prev_set, sid, {})
           hold_left == Get(att_hold_frames, sid, 0)
           hold1 == IF hold_left > 0 THEN Put(att_hold_frames, sid, hold_left - 1)
                    ELSE att_hold_frames
           do_mark == IF hold_left > 0 THEN FALSE
                      ELSE BelowStable(Jaccard(cur_set, prev_set)) /\ f.mark0
           new_labels == cur_set \ prev_set
           allow_msgs == f.now >= Get(msg_delay_until, sid, 0)
           db == LoadAttendanceDb
           labels == DistinctLabels(rec, f.th, {})
           chk == CheckLabels(labels, db, clock, allow_msgs)
           S0 == IF labels # <<>> \/ f.cfg_mark
                 THEN [MarkState EXCEPT !.cache = SetAttendanceCache(db)]
                 ELSE MarkState
           res == IF chk.raised \/ ~f.cfg_mark
                  THEN [S |-> S0, passed |-> <<>>, marked |-> <<>>]
                  ELSE MarkCandidates(S0, chk.candidates, do_mark, new_labels,
                                      db.att_last, clock)
           hold2 == IF chk.raised THEN hold1
                    ELSE HoldAfterFrame(hold1, sid, res.marked, chk.blocked)
       IN /\ att_hold_frames' = hold2
          /\ att_prev_set' = Put(att_prev_set, sid, cur_set)
          /\ att_db_cache' = res.S.cache
          /\ store' = res.S.store
          /\ store_seq' = res.S.store_seq
          /\ tasks' = res.S.tasks
          /\ admitted' = res.S.admitted
          /\ nops' = nops + Len(res.marked)
          /\ reached' = NextReached(reached, res.S.admitted, res.S.store)
          /\ frames' = (frames \ {f}) \cup {[f EXCEPT !.pc = "finish"]}
          /\ last_op' = [op |-> "frame", label |-> "", id |-> f.id, sid |-> sid,
                         event |-> IF chk.raised THEN "att_error" ELSE "att_result",
                         delivered |-> Connected(sid),
                         rec |-> rec, t |-> f.now, th |-> f.th, mark0 |-> f.mark0,
                         cfg_mark |-> f.cfg_mark, hold_left |-> hold_left,
                         hold_stab |-> Get(hold1, sid, 0), prev_set |-> prev_set,
                         do_mark |-> do_mark, allow_msgs |-> allow_msgs,
                         checks |-> [i \in DOMAIN labels |->
                                        CheckMarkBlock(db, labels[i], clock)],
                         att_last |-> db.att_last,
                         blocked |-> chk.blocked, candidates |-> chk.candidates,
                         passed |-> res.passed, marked |-> res.marked]
    /\ UNCHANGED <<clock, reg_list, extVars, sessions, att_cfg, att_last_proc, att_processing,
                   msg_delay_until, accepted, nframes>>

\* a handler that ends without discarding the session from _att_processing
FrameFinishKeepsFlight(f) ==
    /\ LoopFree
    /\ f \in frames
    /\ f.pc = "finish"
    /\ frames' = frames \ {f}
    /\ last_op' = Quiet
    /\ UNCHANGED <<attState, sessions, att_cfg, att_last_proc, att_prev_set, att_processing,
                   att_hold_frames, msg_delay_until, accepted, nframes>>

\* the finally clause of att_frame
FrameFinish(f) ==
    /\ LoopFree
    /\ f \in frames
    /\ f.pc = "finish"
    /\ att_processing' = att_processing \ {f.sid}
    /\ frames' = frames \ {f}
    /\ last_op' = Quiet
    /\ UNCHANGED <<attState, sessions, att_cfg, att_last_proc, att_prev_set,
                   att_hold_frames, msg_delay_until, accepted, nframes>>

\* the rows the table holds when the recognizer starts: as StoreRows0, and
\* a row of A written while A had no person_id
StreamRows0 ==
    StoreRows0 \cup {[id |-> 3, label |-> "A", pid |-> NoPid,
                      ts |-> Epoch0 + 2 * AttMinIntervalMs - CooldownMs + 1]}

InitStream == InitWith(StreamRows0)

\* the instants, counted from the initial clock reading, at which the
\* stream specification observes the clock
StreamInstants == {0, AttMinIntervalMs, 2 * AttMinIntervalMs, LoginMsgDelayMs}

NextStream ==
    \/ \E t \in StreamInstants : Epoch0 + t > clock /\ Tick(Epoch0 + t - clock)
    \/ \E sid \in Sids : Connect(sid)
    \/ \E sid \in Sids : Disconnect(sid)
    \/ \E sid \in Sids, m \in BOOLEAN : AttCfg(sid, m)
    \/ \E sid \in Sids, d \in BOOLEAN : FrameArrive(sid, d)
    \/ \E f \in frames, rec \in RecInputs : Budget /\ FrameProcess(f, rec)
    \/ \E f \in frames : FrameFinish(f)
    \/ \E i \in 1..MaxTasks : PersistFetch(i)
    \/ \E i \in 1..MaxTasks : PersistDelete(i)
    \/ \E i \in 1..MaxTasks : PersistInsert(i)
    \/ \E i \in 1..MaxTasks : PersistUpdate(i)
    \/ \E i \in 1..MaxTasks : PersistDone(i)

SpecStream == InitStream /\ [][NextStream]_vars

(***************************************************************************)
(* Claims about the stream recognizer.                                     *)
(***************************************************************************)
InFlight(sid) == \E f \in frames : f.sid = sid

C6_State ==
    /\ \A f, g \in frames : f.sid = g.sid => f = g
    /\ \A i, j \in DOMAIN accepted :
          i < j /\ accepted[i].sid = accepted[j].sid
          => accepted[j].now - accepted[i].now >= AttMinIntervalMs

C6_Step ==
    nframes' = nframes + 1
    => LET sid == last_op'.sid
           early == InFlight(sid) \/ clock - Get(att_last_proc, sid, 0) < AttMinIntervalMs
       IN /\ early <=> last_op'.op = "drop"
          /\ early => /\ last_op'.event = "none"
                      /\ att_last_proc' = att_last_proc
                      /\ frames' = frames
                      /\ accepted' = accepted

\* C6: a session never has two frames in processing, the frames it has
\* accepted started at least att_ws_min_interval apart, and a frame that
\* arrives while one is in flight or before the interval has elapsed is
\* dropped with no event and with last_proc unchanged
C6_OneInFlightMinInterval == [](C6_State) /\ [][C6_Step]_vars

\* two frames accepted, and a third dropped while the second is in flight
C6_Witness ==
    /\ last_op.op = "drop"
    /\ Len(accepted) = 2
    /\ InFlight(last_op.sid)

\* C7: once a session has disconnected and no frame of it is in processing
\* any more, none of the per-session maps holds an entry for it
C7_NoStateAfterDisconnect ==
    \A sid \in DOMAIN sessions :
        sessions[sid] = "gone" /\ ~InFlight(sid)
        => /\ sid \notin DOMAIN att_cfg
           /\ sid \notin DOMAIN att_last_proc
           /\ sid \notin DOMAIN att_prev_set
           /\ sid \notin DOMAIN att_hold_frames
           /\ sid \notin att_processing
           /\ sid \notin DOMAIN msg_delay_until

\* C8: on a processed frame, a positive hold counter is decremented and the
\* stabilizer refuses; otherwise the stabilizer allows marking exactly when
\* marking was enabled and the Jaccard similarity of cur and prev_labels is
\* below 0.7 (two empty sets count as 1); prev_labels becomes cur
C8_Stabilizer ==
    last_op.op = "frame"
    => LET rec == last_op.rec
           cur == {rec[i].label : i \in {j \in DOMAIN rec :
                        rec[j].label # "Unknown" /\ rec[j].score >= last_op.th}}
           prev == last_op.prev_set
           below == /\ ~(cur = {} /\ prev = {})
                    /\ 10 * Cardinality(cur \cap prev) < 7 * Cardinality(cur \cup prev)
       IN /\ last_op.sid \in DOMAIN att_prev_set
          /\ att_prev_set[last_op.sid] = cur
          /\ IF last_op.hold_left > 0
             THEN last_op.hold_stab = last_op.hold_left - 1 /\ ~last_op.do_mark
             ELSE last_op.hold_stab = 0 /\ (last_op.do_mark <=> (last_op.mark0 /\ below))

\* a frame processed under a positive hold counter, after a frame on which
\* the stabilizer allowed marking
C8_Witness ==
    /\ last_op.op = "frame"
    /\ last_op.hold_left > 0
    /\ last_op.mark0
    /\ Len(admitted) > 0

\* C9: with marking enabled, a candidate is passed to record on a frame
\* exactly when the stabilizer allowed marking, or the label was not in
\* prev_labels, or its cooldown is ready: no last timestamp, last in the
\* future, or now - last >= cooldown_sec
C9_PassedIffAllowed ==
    last_op.op = "frame" /\ last_op.cfg_mark
    => \A i \in DOMAIN last_op.checks :
          last_op.checks[i].can
          => LET lab == last_op.checks[i].label
                 last == Get(last_op.att_last, lab, 0)
                 ready == last <= 0 \/ last > clock \/ clock - last >= CooldownMs
             IN (lab \in Range(last_op.passed))
                <=> (last_op.do_mark \/ lab \notin last_op.prev_set \/ ready)

\* C10: a frame from before msg_delay_until that recognizes a label under
\* cooldown ends with a result event whose blocked list holds the label
\* with code cooldown and an empty message
C10_DelayedFrameStillResults ==
    last_op.op = "frame" /\ ~last_op.allow_msgs
    => \A i \in DOMAIN last_op.checks :
          ~last_op.checks[i].can
          => /\ last_op.event = "att_result"
             /\ \E k \in DOMAIN last_op.blocked :
                   /\ last_op.blocked[k].label = last_op.checks[i].label
                   /\ last_op.blocked[k].code = "cooldown"
                   /\ last_op.blocked[k].message = ""

(***************************************************************************)
(* The register: roster, identity index, photo store and preview cache.    *)
(***************************************************************************)
\* register operations in a behaviour
MaxRegOps == 2

RLabels == {"Alice", "Alice2", "alice"}

\* str.lower() on the labels in use
Lower(l) ==
    IF l = "Alice" THEN "alice"
    ELSE IF l = "Alice2" THEN "alice2"
    ELSE IF l = "Bob" THEN "bob"
    ELSE IF l = "A" THEN "a"
    ELSE IF l = "B" THEN "b"
    ELSE IF l = "TEAM-A" THEN "team-a"
    ELSE IF l = "Team A" THEN "team a"
    ELSE IF l = "Team B" THEN "team b"
    ELSE l

\* the order of the labels as strings
LabelRank(l) ==
    IF l = "Alice" THEN 1
    ELSE IF l = "Alice2" THEN 2
    ELSE IF l = "Bob" THEN 3
    ELSE 4

\* the index: match of a face against engine.db, "Unknown" below the
\* threshold; ties go to the smaller label
EngineRecognize(db, face) ==
    LET M == {l \in DOMAIN db : db[l] = face}
    IN IF M = {} THEN "Unknown"
       ELSE CHOOSE l \in M : \A k \in M : LabelRank(l) <= LabelRank(k)

\* engine.register_embedding(label, emb)
EnginePut(db, label, face) == Put(db, label, face)

\* _engine_forget_label(label)
EngineForgetLabel(db, label) == IF label = "" THEN db ELSE Drop(db, label)

\* ORDER BY id of the select on register_faces; rows without an id come last
RECURSIVE SortById(_)
SortById(rows) ==
    IF rows = <<>> THEN <<>>
    ELSE LET key(r) == IF r.id = NoId THEN 1000000 ELSE r.id
             i == CHOOSE i \in DOMAIN rows :
                     \A j \in DOMAIN rows :
                        key(rows[i]) < key(rows[j]) \/ (key(rows[i]) = key(rows[j]) /\ i <= j)
         IN <<rows[i]>> \o SortById(RemoveAt(rows, i))

\* the part of the state the register handlers read and write
RegState == [table |-> rf_table, cache |-> reg_cache, rdb |-> rdb_cache,
             index |-> engine_db, photos |-> photos, photo_seq |-> photo_seq,
             pid_seq |-> pid_seq, preview |-> preview_cache]

\* _load_reg_list(): the list the lru_cache holds, else the table's rows
LoadRegList(R) == IF R.cache.present THEN R.cache.list ELSE SortById(R.table)

\* the state after a call of _load_reg_list()
Loaded(R) == [R EXCEPT !.cache = [present |-> TRUE, list |-> LoadRegList(R)]]

\* _invalidate_reg_list_cache()
Invalidated(R) == [R EXCEPT !.cache = NoList]

\* main_fastapi._save_reg_list(data); fault names the request that fails
SaveRegList(R, data, fault) ==
    IF data = <<>> THEN [R |-> R, raised |-> FALSE]
    ELSE IF fault = "upsert" /\ \E i \in DOMAIN data : data[i].person_id # NoId
    THEN [R |-> R, raised |-> TRUE]
    ELSE IF fault = "delete" THEN [R |-> R, raised |-> TRUE]
    ELSE IF fault = "insert" THEN [R |-> [R EXCEPT !.table = <<>>], raised |-> TRUE]
    ELSE [R |-> Invalidated([R EXCEPT !.table = data]), raised |-> FALSE]

\* the loop of _ensure_register_person_ids
RECURSIVE FixPersonIds(_, _, _)
FixPersonIds(items, seen, seq) ==
    IF items = <<>> THEN [items |-> <<>>, seq |-> seq, changed |-> FALSE]
    ELSE LET it == Head(items)
             keep == it.person_id # NoId /\ it.person_id \notin seen
             pid == IF keep THEN it.person_id ELSE seq + 1
             rest == FixPersonIds(Tail(items), seen \cup {pid}, IF keep THEN seq ELSE seq + 1)
         IN [items |-> <<[it EXCEPT !.person_id = pid]>> \o rest.items,
             seq |-> rest.seq, changed |-> rest.changed \/ ~keep]

\* _ensure_register_person_ids(items)
EnsureRegisterPersonIds(R, items) ==
    LET fix == FixPersonIds(items, {}, R.pid_seq)
        R1 == [R EXCEPT !.pid_seq = fix.seq]
    IN [R |-> IF fix.changed THEN SaveRegList(R1, fix.items, "none").R ELSE R1,
        items |-> fix.items]

\* the loop of _engine_refresh_from_register over the entries
RECURSIVE RefreshIndex(_, _)
RefreshIndex(db, entries) ==
    IF entries = <<>> THEN db
    ELSE LET e == Head(entries)
         IN RefreshIndex(IF e.label # "" /\ e.emb # "" THEN EnginePut(db, e.label, e.emb)
                         ELSE db, Tail(entries))

\* _engine_refresh_from_register(reason)
EngineRefreshFromRegister(R) ==
    LET R1 == Loaded(R)
        entries == R1.cache.list
        modified == \E i \in DOMAIN entries : entries[i].label # "" /\ entries[i].emb # ""
        R2 == [R1 EXCEPT !.index = RefreshIndex(R1.index, entries)]
    IN IF modified THEN SaveRegList(R2, entries, "none").R ELSE R2

\* main_fastapi._alloc_new_id(existing)
AllocNewId(existing) == SetMax({existing[i].id : i \in DOMAIN existing} \cup {0}) + 1

\* faults a register handler can meet: the photo upload, the insert of the
\* clean-up save, the delete or the insert of the final save
RegFaults == {"none", "upload", "clean_insert", "save_delete", "save_insert"}

FirstIdx(entries, label) ==
    IF \E i \in DOMAIN entries : entries[i].label = label
    THEN CHOOSE i \in DOMAIN entries :
            /\ entries[i].label = label
            /\ \A j \in DOMAIN entries : entries[j].label = label => i <= j
    ELSE 0

\* reuse_meta[label] of register_face: the person_id of the last removed
\* entry of the label that has one, the id of the first that has one
ReuseMeta(removed, label) ==
    LET P == {i \in DOMAIN removed : removed[i].label = label /\ removed[i].person_id # NoId}
        I == {i \in DOMAIN removed : removed[i].label = label /\ removed[i].id # NoId}
    IN [person_id |-> IF P = {} THEN NoId ELSE removed[SetMax(P)].person_id,
        id |-> IF I = {} THEN NoId
               ELSE removed[CHOOSE i \in I : \A j \in I : i <= j].id]

RECURSIVE ForgetAll(_, _)
ForgetAll(db, removed) ==
    IF removed = <<>> THEN db
    ELSE ForgetAll(EngineForgetLabel(db, Head(removed).label), Tail(removed))

\* the cached list when the handler works on the list object the lru_cache
\* holds
Aliased(R, aliased, entries) ==
    IF aliased /\ R.cache.present THEN [R EXCEPT !.cache.list = entries] ELSE R

Reply(R, status, label) == [R |-> R, status |-> status, label |-> label, top |-> ""]

\* register_face from the embedding to the reply, on the list entries
\* (the cached list object when aliased)
RegisterFaceSave(R, entries, aliased, reuse, label, face, token, fault) ==
    LET idx == FirstIdx(entries, label)
        exists == idx > 0
        rest == IF exists THEN RemoveAt(entries, idx) ELSE entries
        old == entries[idx]
        gen == IF exists THEN old.person_id = NoId ELSE TRUE
        pid0 == IF exists /\ old.person_id # NoId THEN old.person_id ELSE R.pid_seq + 1
        id0 == IF exists /\ old.id # NoId THEN old.id ELSE AllocNewId(rest)
        pid == IF ~exists /\ reuse.person_id # NoId THEN reuse.person_id ELSE pid0
        id == IF ~exists /\ reuse.id # NoId THEN reuse.id ELSE id0
        previous_path == IF exists THEN old.photo_path ELSE NoId
        Ra == Aliased([R EXCEPT !.pid_seq = IF gen THEN @ + 1 ELSE @], aliased, rest)
        path == Ra.photo_seq + 1
        Rb == [Ra EXCEPT !.photo_seq = path,
                         !.photos = (@ \cup {path}) \ {previous_path}]
        list == Append(rest, Row(id, pid, label, face, path))
        Rc == Aliased(Rb, aliased, list)
        ens == EnsureRegisterPersonIds(Rc, list)
        Rd == Aliased(ens.R, aliased, ens.items)
        sav == SaveRegList(Rd, ens.items,
                           IF fault = "save_delete" THEN "delete"
                           ELSE IF fault = "save_insert" THEN "insert" ELSE "none")
        Re == [Invalidated(sav.R) EXCEPT !.index = EnginePut(@, label, face)]
        Rf == IF token \in DOMAIN Re.preview
              THEN [Re EXCEPT !.preview = Drop(@, token)] ELSE Re
    IN IF fault = "upload" THEN Reply(Ra, 500, label)
       ELSE IF sav.raised THEN Reply(sav.R, 500, label)
       ELSE Reply(Rf, 200, label)

\* register_face(label, force, file, preview_token): token is "" when the
\* request carries a file, file is "" when it carries a token only
RegisterFace(R0, label, token, file, force, fault) ==
    LET has_entry == token \in DOMAIN R0.preview
        face == IF has_entry THEN R0.preview[token].face ELSE file
        hits == IF has_entry THEN R0.preview[token].faces
                ELSE <<EngineRecognize(R0.index, face)>>
        dup_hits == SelectSeq(hits, LAMBDA l : l \notin {"", "Unknown"})
        R1 == Loaded(R0)
        entries == R1.cache.list
        removed == SelectSeq(entries, LAMBDA e : e.label # "" /\ e.label \in Range(dup_hits))
        kept == SelectSeq(entries, LAMBDA e : ~(e.label # "" /\ e.label \in Range(dup_hits)))
        R2 == [R1 EXCEPT !.photos = @ \ {removed[i].photo_path : i \in DOMAIN removed},
                         !.index = ForgetAll(@, removed)]
        sav == SaveRegList(R2, kept, IF fault = "clean_insert" THEN "insert" ELSE "none")
        R3 == EngineRefreshFromRegister(sav.R)
    IN IF ~has_entry /\ file = "" THEN Reply(R0, 410, label)
       ELSE IF dup_hits # <<>> /\ ~force
       THEN [R |-> R1, status |-> 409, label |-> label, top |-> dup_hits[1]]
       ELSE IF dup_hits # <<>>
       THEN IF sav.raised THEN Reply(sav.R, 500, label)
            ELSE RegisterFaceSave(R3, kept, FALSE, ReuseMeta(removed, label),
                                  label, face, token, fault)
       ELSE RegisterFaceSave(R1, entries, TRUE, [person_id |-> NoId, id |-> NoId],
                             label, face, token, fault)

\* the variables of the register take the values of R
RegStep(R) ==
    /\ rf_table' = R.table
    /\ reg_cache' = R.cache
    /\ rdb_cache' = R.rdb
    /\ engine_db' = R.index
    /\ photos' = R.photos
    /\ photo_seq' = R.photo_seq
    /\ pid_seq' = R.pid_seq
    /\ preview_cache' = R.preview
    /\ rops' = rops + 1
    /\ UNCHANGED <<clock, reg_list, lockVars, enrolls, rq, calc, att_db_cache, store, store_seq,
                   tasks, nops, admitted, reached, streamVars>>

\* what a reader of the roster sees: the table, and the list _load_reg_list
\* returns
View(R) == [table |-> R.table, list |-> LoadRegList(R), index |-> R.index,
            photos |-> R.photos, preview |-> R.preview]

\* a request to register_face
Enroll(label, token, file, force, fault) ==
    /\ rops < MaxRegOps
    /\ (token = "") # (file = "")
    /\ LET res == RegisterFace(RegState, label, token, file, force, fault)
       IN /\ RegStep(res.R)
          /\ last_op' = [op |-> "enroll", label |-> label, id |-> 0, token |-> token,
                         file |-> file, force |-> force, fault |-> fault,
                         status |-> res.status, top |-> res.top, pre |-> View(RegState)]

FindIdxFirst(data, item_id) == IF data = <<>> THEN 0 ELSE 1

\* _find_idx_by_id(data, item_id): 0 when no entry carries the id
FindIdxById(data, item_id) ==
    IF \E i \in DOMAIN data : data[i].id # NoId /\ data[i].id = item_id
    THEN CHOOSE i \in DOMAIN data :
            /\ data[i].id # NoId /\ data[i].id = item_id
            /\ \A j \in DOMAIN data : (data[j].id # NoId /\ data[j].id = item_id) => i <= j
    ELSE 0

SaveFault(fault) ==
    IF fault = "save_delete" THEN "delete"
    ELSE IF fault = "save_insert" THEN "insert" ELSE "none"

\* admin_delete_item(item_id, delete_photo)
AdminDeleteItem(R0, item_id, delete_photo, fault) ==
    LET R1 == Loaded(R0)
        entries == R1.cache.list
        idx == FindIdxById(entries, item_id)
        entry == entries[idx]
        rest == RemoveAt(entries, idx)
        Ra == [R1 EXCEPT !.cache.list = rest,
                         !.photos = IF delete_photo THEN @ \ {entry.photo_path} ELSE @]
        sav == SaveRegList(Ra, rest, SaveFault(fault))
        Rb == [sav.R EXCEPT !.index = EngineForgetLabel(@, entry.label)]
    IN IF idx = 0 THEN Reply(R1, 404, "")
       ELSE IF sav.raised THEN Reply(sav.R, 500, entry.label)
       ELSE Reply(EngineRefreshFromRegister(Rb), 200, entry.label)

\* admin_update_item(item_id, payload) with a label only
AdminUpdateItem(R0, item_id, new_label, fault) ==
    LET R1 == Loaded(R0)
        entries == R1.cache.list
        idx == FindIdxById(entries, item_id)
        old_label == entries[idx].label
        taken == /\ Lower(new_label) # Lower(old_label)
                 /\ \E i \in DOMAIN entries :
                       /\ entries[i].id # item_id
                       /\ Lower(entries[i].label) = Lower(new_label)
        list == [entries EXCEPT ![idx].label = new_label]
        Ra == [R1 EXCEPT !.cache.list = list]
        ens == EnsureRegisterPersonIds(Ra, list)
        sav == SaveRegList(ens.R, ens.items, SaveFault(fault))
    IN IF idx = 0 THEN Reply(R1, 404, "")
       ELSE IF taken THEN Reply(R1, 409, old_label)
       ELSE IF sav.raised THEN Reply(sav.R, 500, old_label)
       ELSE Reply(EngineRefreshFromRegister(sav.R), 200, old_label)

\* the first loop of _migrate_register_ids: a repeated id becomes 0
RECURSIVE ClearRepeatedIds(_, _)
ClearRepeatedIds(items, seen) ==
    IF items = <<>> THEN <<>>
    ELSE LET it == Head(items)
         IN IF it.id # NoId /\ it.id \notin seen
            THEN <<it>> \o ClearRepeatedIds(Tail(items), seen \cup {it.id})
            ELSE <<[it EXCEPT !.id = NoId]>> \o ClearRepeatedIds(Tail(items), seen)

\* the second loop of _migrate_register_ids: entry k on, ids from
\* _alloc_new_id over the whole list
RECURSIVE AssignIds(_, _)
AssignIds(items, k) ==
    IF k > Len(items) THEN items
    ELSE IF items[k].id = NoId
    THEN AssignIds([items EXCEPT ![k].id = AllocNewId(items)], k + 1)
    ELSE AssignIds(items, k + 1)

\* main_fastapi._migrate_register_ids()
MigrateRegisterIds(R0) ==
    LET R1 == Loaded(R0)
        items == R1.cache.list
        fixed == AssignIds(ClearRepeatedIds(items, {}), 1)
        Ra == [R1 EXCEPT !.cache.list = fixed]
    IN IF items = <<>> \/ fixed = items THEN Reply(R1, 200, "")
       ELSE Reply(SaveRegList(Ra, fixed, "none").R, 200, "")

\* what the store does with a row inserted with a null id: keeps the null,
\* assigns a default, or rejects the insert
NullIdOutcomes == {"keep", "assign", "reject"}

\* register_db.load_register_list(): the copy in _REGISTER_CACHE while it is
\* fresh, else the table's rows
RdbLoadRegisterList(R) == IF R.rdb.present THEN R.rdb.list ELSE SortById(R.table)

RdbLoaded(R) == [R EXCEPT !.rdb = [present |-> TRUE, list |-> RdbLoadRegisterList(R)]]

\* the ids the store gives to the rows of an insert that carry none
RECURSIVE StoreAssignIds(_, _)
StoreAssignIds(rows, k) ==
    IF k > Len(rows) THEN rows
    ELSE IF rows[k].id = NoId
    THEN StoreAssignIds([rows EXCEPT ![k].id = AllocNewId(rows)], k + 1)
    ELSE StoreAssignIds(rows, k + 1)

\* register_db.save_register_list(data)
RdbSaveRegisterList(R, data, null_id) ==
    LET nulls == \E i \in DOMAIN data : data[i].id = NoId
        cached == [present |-> TRUE, list |-> data]
    IN IF nulls /\ null_id = "reject"
       THEN [R |-> [R EXCEPT !.table = <<>>], raised |-> TRUE]
       ELSE IF nulls /\ null_id = "assign"
       THEN [R |-> [R EXCEPT !.table = StoreAssignIds(data, 1), !.rdb = cached],
             raised |-> FALSE]
       ELSE [R |-> [R EXCEPT !.table = data, !.rdb = cached], raised |-> FALSE]

\* register_db.ensure_register_person_ids(items)
RdbEnsureRegisterPersonIds(R, items, null_id) ==
    LET fix == FixPersonIds(items, {}, R.pid_seq)
        R1 == [R EXCEPT !.pid_seq = fix.seq]
    IN [R |-> IF fix.changed THEN RdbSaveRegisterList(R1, fix.items, null_id).R ELSE R1,
        items |-> fix.items]

\* register_db._upsert_register_entry_from_image(label, img_abs, bgr); the
\* photo_path it writes is a local file, not an object of the photo store
UpsertRegisterEntryFromImage(R0, label, face, null_id) ==
    LET R1 == RdbLoaded(R0)
        items == R1.rdb.list
        idx == FirstIdx(items, label)
        list == IF idx > 0
                THEN [items EXCEPT ![idx].emb = face, ![idx].photo_path = NoId]
                ELSE Append(items, Row(NoId, NoId, label, face, NoId))
        ens == RdbEnsureRegisterPersonIds(R1, list, null_id)
    IN RdbSaveRegisterList(ens.R, ens.items, null_id)

\* one pass of face_hot_watcher over a changed file of the face directory
FaceHotWatcher(R0, label, face, null_id) ==
    LET R1 == [R0 EXCEPT !.index = EnginePut(@, label, face)]
        ups == UpsertRegisterEntryFromImage(R1, label, face, null_id)
    IN Reply(ups.R, IF ups.raised THEN 500 ELSE 200, label)

\* a request to DELETE /admin/register-db/item/{id}
Delete(item_id, delete_photo, fault) ==
    /\ rops < MaxRegOps
    /\ LET res == AdminDeleteItem(RegState, item_id, delete_photo, fault)
       IN /\ RegStep(res.R)
          /\ last_op' = [op |-> "delete", label |-> res.label, id |-> item_id, token |-> "",
                         file |-> "", force |-> delete_photo, fault |-> fault,
                         status |-> res.status, top |-> "", pre |-> View(RegState),
                         again |-> /\ last_op.op = "delete" /\ last_op.id = item_id
                                   /\ last_op.status = 200]

\* a request to PUT /admin/register-db/item/{id}
Rename(item_id, new_label, fault) ==
    /\ rops < MaxRegOps
    /\ LET res == AdminUpdateItem(RegState, item_id, new_label, fault)
       IN /\ RegStep(res.R)
          /\ last_op' = [op |-> "rename", label |-> new_label, id |-> item_id, token |-> "",
                         file |-> "", force |-> FALSE, fault |-> fault,
                         status |-> res.status, top |-> "", pre |-> View(RegState)]

\* the watcher finds a new or changed picture of the face directory
Reconcile(label, face, null_id) ==
    /\ rops < MaxRegOps
    /\ LET res == FaceHotWatcher(RegState, label, face, null_id)
       IN /\ RegStep(res.R)
          /\ last_op' = [op |-> "reconcile", label |-> label, id |-> 0, token |-> "",
                         file |-> face, force |-> FALSE, fault |-> null_id,
                         status |-> res.status, top |-> "", pre |-> View(RegState)]

\* the id migration of the startup
Migrate ==
    /\ rops < MaxRegOps
    /\ LET res == MigrateRegisterIds(RegState)
       IN /\ RegStep(res.R)
          /\ last_op' = [op |-> "migrate", label |-> "", id |-> 0, token |-> "",
                         file |-> "", force |-> FALSE, fault |-> "none",
                         status |-> res.status, top |-> "", pre |-> View(RegState)]

\* _CACHE_TTL passes: the copy in _REGISTER_CACHE is stale
RdbExpire ==
    /\ rdb_cache.present
    /\ rdb_cache' = NoList
    /\ last_op' = Quiet
    /\ UNCHANGED <<rf_table, reg_cache, engine_db, photos, photo_seq, pid_seq,
                   preview_cache, rops, clock, reg_list, lockVars, enrolls, rq, calc,
                   att_db_cache,
                   store, store_seq, tasks, nops, admitted, reached, streamVars>>

\* the lists a handler hands to _save_reg_list
SaveInputs == {<<>>,
               <<Row(1, 1, "Alice", "f2", 1)>>,
               <<Row(1, 1, "Alice", "f1", 1), Row(2, 2, "Alice2", "f2", 2)>>}

\* the requests of _save_reg_list that can fail
SaveFaults == {"none", "upsert", "delete", "insert"}

\* a call of _save_reg_list(data) on its own
ReplaceIdentities(data, fault) ==
    /\ rops < MaxRegOps
    /\ LET sav == SaveRegList(RegState, data, fault)
       IN /\ RegStep(sav.R)
          /\ last_op' = [op |-> "replace", label |-> "", id |-> 0, data |-> data,
                         fault |-> fault, raised |-> sav.raised,
                         status |-> IF sav.raised THEN 500 ELSE 200,
                         pre |-> View(RegState)]

RegIds == {1, 2}

DeleteFaults == {"none", "save_delete", "save_insert"}

InitReg ==
    /\ BaseInit(StoreRows0) /\ LockInit /\ RetryInit(1)
    /\ \E rows \in {RfTable0, RfTable1} : RegInit(rows)

NextReg ==
    \/ \E label \in RLabels, force \in BOOLEAN, fault \in RegFaults :
          \/ Enroll(label, "t1", "", force, fault)
          \/ \E f \in Faces : Enroll(label, "", f, force, fault)
    \/ \E id \in RegIds, delete_photo \in BOOLEAN, fault \in DeleteFaults :
          Delete(id, delete_photo, fault)
    \/ \E id \in RegIds, label \in RLabels, fault \in DeleteFaults : Rename(id, label, fault)
    \/ \E label \in RLabels, f \in Faces, null_id \in NullIdOutcomes :
          Reconcile(label, f, null_id)
    \/ Migrate
    \/ RdbExpire
    \/ \E data \in SaveInputs, fault \in SaveFaults : ReplaceIdentities(data, fault)

SpecReg == InitReg /\ [][NextReg]_vars

LabelsOf(rows) == {rows[i].label : i \in DOMAIN rows}

PersonIdsOf(rows, label) == {rows[i].person_id : i \in DOMAIN rows} \cap
                            {rows[i].person_id : i \in {j \in DOMAIN rows : rows[j].label = label}}

\* the face of the last enroll request: the picture of the request, or the
\* picture kept under its preview token
EnrolledFace ==
    IF last_op.token \in DOMAIN last_op.pre.preview
    THEN last_op.pre.preview[last_op.token].face ELSE last_op.file

\* the identity the face of the last enroll request was enrolled under
\* before the request, "Unknown" when there was none
EnrolledAs == EngineRecognize(last_op.pre.index, EnrolledFace)

\* the last step was a successful enroll with force of a face that was
\* enrolled under another label
ForceReplaced ==
    /\ last_op.op = "enroll" /\ last_op.force /\ last_op.status = 200
    /\ EnrolledAs \notin {"Unknown", last_op.label}
    /\ EnrolledAs \in LabelsOf(last_op.pre.table)

\* C11: after a successful force-replace of a face enrolled as Alice by the
\* label Alice2, the index holds Alice2 and not Alice, and the roster holds
\* Alice2 under a person_id that is not Alice's and holds no Alice
C11_ForceReplace ==
    ForceReplaced =>
        /\ last_op.label \in DOMAIN engine_db
        /\ EnrolledAs \notin DOMAIN engine_db
        /\ last_op.label \in LabelsOf(rf_table)
        /\ EnrolledAs \notin LabelsOf(rf_table)
        /\ PersonIdsOf(rf_table, last_op.label) \cap
           PersonIdsOf(last_op.pre.table, EnrolledAs) = {}

\* C12: an enroll without force of a face that matches an identity of the
\* index is answered 409 with the matching label, and leaves the roster, the
\* index, the photo store and the preview cache as they were
C12_ConflictChangesNothing ==
    (last_op.op = "enroll" /\ ~last_op.force /\ last_op.status # 410
        /\ EnrolledAs # "Unknown") =>
        /\ last_op.status = 409
        /\ last_op.top = EnrolledAs
        /\ View(RegState) = last_op.pre

\* the identities of a roster: label, person_id and embedding of its rows
IdentitiesOf(rows) ==
    {[label |-> rows[i].label, person_id |-> rows[i].person_id, emb |-> rows[i].emb] :
        i \in DOMAIN rows}

\* C13: an enroll that ends with an error has installed nothing in the
\* index, and every identity the roster and the index held before the call
\* is still in the roster and in the index
C13_AllOrNothing ==
    (last_op.op = "enroll" /\ last_op.status = 500) =>
        /\ engine_db = last_op.pre.index
        /\ IdentitiesOf(last_op.pre.list) \subseteq IdentitiesOf(LoadRegList(RegState))
        /\ IdentitiesOf(last_op.pre.table) \subseteq IdentitiesOf(rf_table)

\* C14: after a call of _save_reg_list, failed or not, a reader of the
\* roster gets the whole new list or the whole old list
C14_ReplaceIsAtomic ==
    last_op.op = "replace" =>
        LoadRegList(RegState) \in {last_op.data, last_op.pre.list}

\* no two rows carry labels that are equal when case is ignored
DistinctIgnoringCase(rows) ==
    \A i, j \in DOMAIN rows : Lower(rows[i].label) = Lower(rows[j].label) => i = j

\* C15: the roster never holds two identities whose labels are equal
\* ignoring case
C15_LabelsDistinctIgnoringCase ==
    DistinctIgnoringCase(rf_table) /\ DistinctIgnoringCase(LoadRegList(RegState))

\* every row has a positive id of its own
IdsPositiveUnique(rows) ==
    /\ \A i \in DOMAIN rows : rows[i].id # NoId /\ rows[i].id > 0
    /\ \A i, j \in DOMAIN rows : rows[i].id = rows[j].id => i = j

\* C16: in the table and in the lists the two loaders return, every
\* identity has a positive id that no other identity has
C16_IdsPositiveUnique ==
    /\ IdsPositiveUnique(rf_table)
    /\ IdsPositiveUnique(LoadRegList(RegState))
    /\ IdsPositiveUnique(RdbLoadRegisterList(RegState))

\* the rows of a roster that carry the label
RowsOf(rows, label) == {rows[i] : i \in {j \in DOMAIN rows : rows[j].label = label}}

\* the rows of a roster that carry another label
OtherRows(rows, label) == {rows[i] : i \in {j \in DOMAIN rows : rows[j].label # label}}

\* an enroll that succeeded keeps the person_id and the id of the label's
\* row, or gives a new label a person_id no other row has and the id after
\* the largest id of the other rows
EnrollKeepsOrAllocates ==
    (last_op.op = "enroll" /\ last_op.status = 200) =>
        LET before == RowsOf(last_op.pre.table, last_op.label)
            after == RowsOf(rf_table, last_op.label)
            others == OtherRows(rf_table, last_op.label)
        IN /\ after # {}
           /\ before # {} =>
                 \A b \in before : \A a \in after :
                    /\ a.person_id = b.person_id
                    /\ b.id # NoId => a.id = b.id
           /\ before = {} =>
                 \A a \in after :
                    /\ a.person_id \notin {o.person_id : o \in others}
                    /\ a.id = SetMax({o.id : o \in others} \cup {0}) + 1

\* a rename that succeeded leaves the person_id of the renamed row
RenameKeepsPersonId ==
    (last_op.op = "rename" /\ last_op.status = 200) =>
        \A i \in DOMAIN last_op.pre.table : \A j \in DOMAIN rf_table :
            (last_op.pre.table[i].id = last_op.id /\ rf_table[j].id = last_op.id)
                => rf_table[j].person_id = last_op.pre.table[i].person_id

\* C17: enrolling an existing label keeps its person_id and id, enrolling a
\* new label allocates an unused person_id and the next id, and a rename
\* keeps the person_id
C17_StableIds == EnrollKeepsOrAllocates /\ RenameKeepsPersonId

\* C18: a delete of an identity right after a delete of the same identity
\* finds nothing, and leaves the roster, the index and the other identities
\* as they were
C18_DeleteTwice ==
    (last_op.op = "delete" /\ last_op.again) =>
        /\ last_op.status = 404
        /\ View(RegState) = last_op.pre

\* a second delete ran on a roster that holds another identity
C18_Witness ==
    /\ last_op.op = "delete" /\ last_op.again
    /\ last_op.status = 404
    /\ "Bob" \in LabelsOf(rf_table)
    /\ "Alice" \notin LabelsOf(rf_table) /\ "Alice" \notin DOMAIN engine_db

\* ---------------------------------------------------------------------
\* The engine mutex: the event loop thread and the worker threads of
\* asyncio.to_thread around the calls of the face engine
\* ---------------------------------------------------------------------

MaxCalls == 4

\* the engine calls a thread makes: recognize and the refresh of the index
\* run in a worker, _engine_forget_label and the register_embedding of
\* register_face on the event loop
EngineOps(t) == IF t = "loop" THEN {"forget", "register"} ELSE {"recognize", "refresh"}

\* the calls that go through ENGINE_LOCK
TakesLock(op) == op \in {"recognize", "refresh", "forget"}

\* the calls that write engine.db
WritesIndex(op) == op \in {"refresh", "forget", "register"}

\* the thread is inside a call of the engine
InEngine(t) == thr[t].pc \in {"call", "inner", "done"}

lockRest == <<rf_table, reg_cache, rdb_cache, photos, photo_seq, pid_seq, preview_cache,
              rops, enrolls, rq, calc, clock, reg_list, att_db_cache, store, store_seq, tasks, nops,
              admitted, reached, streamVars>>

\* a thread reaches an engine call: it waits for ENGINE_LOCK, or enters the
\* call at once when the call site takes no lock
BeginCall(t, op) ==
    /\ ncalls < MaxCalls
    /\ thr[t].pc = "idle"
    /\ op \in EngineOps(t)
    /\ thr' = [thr EXCEPT ![t] = [op |-> op,
                                  pc |-> IF TakesLock(op) THEN "wait" ELSE "call",
                                  locked |-> FALSE]]
    /\ ncalls' = ncalls + 1
    /\ last_op' = [op |-> "begin", label |-> t, id |-> 0]
    /\ UNCHANGED <<engine_lock, engine_db, lockRest>>

\* ENGINE_LOCK.acquire() of a thread that does not hold it
Acquire(t) ==
    /\ thr[t].pc = "wait"
    /\ engine_lock.count = 0
    /\ engine_lock' = [owner |-> t, count |-> 1]
    /\ thr' = [thr EXCEPT ![t].pc = "call", ![t].locked = TRUE]
    /\ last_op' = [op |-> "acquire", label |-> t, id |-> 0]
    /\ UNCHANGED <<ncalls, engine_db, lockRest>>

\* the refresh calls engine_sync_call inside its with block: the RLock is
\* taken a second time by its owner
Reenter(t) ==
    /\ thr[t].pc = "call" /\ thr[t].op = "refresh"
    /\ engine_lock.owner = t
    /\ engine_lock' = [engine_lock EXCEPT !.count = @ + 1]
    /\ thr' = [thr EXCEPT ![t].pc = "inner"]
    /\ last_op' = [op |-> "reenter", label |-> t, id |-> 0]
    /\ UNCHANGED <<ncalls, engine_db, lockRest>>

\* the inner call returns
Leave(t) ==
    /\ thr[t].pc = "inner"
    /\ engine_lock' = [engine_lock EXCEPT !.count = @ - 1]
    /\ thr' = [thr EXCEPT ![t].pc = "done"]
    /\ last_op' = [op |-> "leave", label |-> t, id |-> 0]
    /\ UNCHANGED <<ncalls, engine_db, lockRest>>

\* the call returns: its write of engine.db is done, the lock it took is
\* released
EndCall(t) ==
    /\ \/ thr[t].pc = "call" /\ thr[t].op # "refresh"
       \/ thr[t].pc = "done"
    /\ engine_db' = IF thr[t].op = "register" THEN EnginePut(engine_db, "Alice2", "f2")
                    ELSE IF thr[t].op = "forget" THEN EngineForgetLabel(engine_db, "Alice2")
                    ELSE IF thr[t].op = "refresh" THEN RefreshIndex(engine_db, rf_table)
                    ELSE engine_db
    /\ engine_lock' = IF thr[t].locked THEN [owner |-> "", count |-> 0] ELSE engine_lock
    /\ thr' = [thr EXCEPT ![t] = Idle]
    /\ last_op' = [op |-> "end", label |-> t, id |-> 0]
    /\ UNCHANGED <<ncalls, lockRest>>

NextLock ==
    \/ \E t \in Threads, op \in {"recognize", "refresh", "forget", "register"} : BeginCall(t, op)
    \/ \E t \in Threads : Acquire(t)
    \/ \E t \in Threads : Reenter(t)
    \/ \E t \in Threads : Leave(t)
    \/ \E t \in Threads : EndCall(t)

SpecLock == InitWith(StoreRows0) /\ [][NextLock]_vars

\* C19: a thread inside an engine call or a write of the index holds
\* ENGINE_LOCK, and no write of the index runs while another thread is
\* inside recognize
C19_EngineUnderLock ==
    /\ \A t \in Threads : InEngine(t) => engine_lock.owner = t
    /\ \A t, u \in Threads :
          (t # u /\ InEngine(t) /\ WritesIndex(thr[t].op)) =>
              ~(InEngine(u) /\ thr[u].op = "recognize")

\* ---------------------------------------------------------------------
\* The retry wrapper of the storage client: _QueryProxy._execute_with_retry
\* ---------------------------------------------------------------------

\* SUPABASE_RETRY_ATTEMPTS is read with int(); 3 when unset
MaxAttempts == 3

\* _get_status_from_error returns None
NoStatus == 0

\* what one call of the underlying execute() does: it returns a result, it
\* returns a result that carries an error, or it raises an error with or
\* without a status
Outcome(kind, status) == [kind |-> kind, status |-> status]

Outcomes ==
    {Outcome("ok", NoStatus), Outcome("res_error", NoStatus)} \cup
    {Outcome("raise", st) : st \in {NoStatus, 404, 429, 499, 500, 599, 600}}

\* _get_status_from_error(e): the RuntimeError made from res.error has none
GetStatusFromError(o) == IF o.kind = "res_error" THEN NoStatus ELSE o.status

ShouldRetryOn5xxOnly(status) == 500 <= status /\ status <= 599

\* _should_retry(status)
ShouldRetry(status) ==
    IF status = NoStatus THEN TRUE
    ELSE IF status = 429 THEN TRUE
    ELSE IF 500 <= status /\ status <= 599 THEN TRUE
    ELSE FALSE

AssertionError == Outcome("assert", NoStatus)

retryRest == <<regVars, lockVars, enrolls, calc, clock, reg_list, att_db_cache, store, store_seq, tasks,
               nops, admitted, reached, streamVars>>

\* one pass of the body of the for loop up to the sleep
RetryCall(o) ==
    /\ rq.pc = "loop" /\ rq.i < rq.attempts
    /\ rq' = IF o.kind = "ok"
             THEN [rq EXCEPT !.calls = Append(@, o), !.pc = "returned", !.result = o]
             ELSE IF ~ShouldRetry(GetStatusFromError(o))
             THEN [rq EXCEPT !.calls = Append(@, o), !.last_err = o, !.pc = "raised",
                             !.result = o]
             ELSE [rq EXCEPT !.calls = Append(@, o), !.last_err = o, !.pc = "sleep"]
    /\ last_op' = [op |-> "call", label |-> o.kind, id |-> o.status]
    /\ UNCHANGED retryRest

\* _sleep_backoff returns and the loop goes on
RetrySleep ==
    /\ rq.pc = "sleep"
    /\ rq' = [rq EXCEPT !.i = @ + 1, !.pc = "loop"]
    /\ last_op' = [op |-> "sleep", label |-> "", id |-> 0]
    /\ UNCHANGED retryRest

\* the statements after the loop: assert last_err is not None; raise last_err
RetryExhausted ==
    /\ rq.pc = "loop" /\ rq.i >= rq.attempts
    /\ rq' = [rq EXCEPT !.pc = "raised",
                        !.result = IF rq.calls = <<>> THEN AssertionError ELSE rq.last_err]
    /\ last_op' = [op |-> "exhausted", label |-> "", id |-> 0]
    /\ UNCHANGED retryRest

InitRetry ==
    /\ BaseInit(StoreRows0) /\ RegInit(RfTable0) /\ LockInit
    /\ \E n \in 0..MaxAttempts : RetryInit(n)

NextRetry ==
    \/ \E o \in Outcomes : RetryCall(o)
    \/ RetrySleep
    \/ RetryExhausted

SpecRetry == InitRetry /\ [][NextRetry]_vars /\ WF_vars(NextRetry)

\* a failed call the retry policy repeats: no status, 429 or 5xx
RetryableFailure(o) ==
    /\ o.kind # "ok"
    /\ \/ o.kind = "res_error"
       \/ o.status = NoStatus
       \/ o.status = 429
       \/ (500 <= o.status /\ o.status <= 599)

RetryDone == rq.pc \in {"returned", "raised"}

LastCall == rq.calls[Len(rq.calls)]

\* at most attempts calls; every call but the last was a retryable failure;
\* a success is returned at once; a failure that is not retryable is raised
\* at once; a retryable failure short of the limit is retried
RetryCallsBounded ==
    /\ Len(rq.calls) <= rq.attempts
    /\ \A k \in 1..(Len(rq.calls) - 1) : RetryableFailure(rq.calls[k])
    /\ rq.pc = "returned" <=> (rq.calls # <<>> /\ LastCall.kind = "ok")
    /\ (rq.calls # <<>> /\ LastCall.kind # "ok" /\ ~RetryableFailure(LastCall)) =>
          (rq.pc = "raised" /\ rq.result = LastCall)
    /\ (rq.calls # <<>> /\ RetryableFailure(LastCall) /\ Len(rq.calls) < rq.attempts) =>
          ~RetryDone

\* the error raised is the error of the last call
RaisesLastError ==
    rq.pc = "raised" => (rq.calls # <<>> /\ rq.result = LastCall)

\* with no attempt allowed nothing is called and the assertion fails
RaisesAssertion ==
    (rq.pc = "raised" /\ rq.attempts = 0) => (rq.calls = <<>> /\ rq.result = AssertionError)

RqAfterCall(q, o) ==
    IF o.kind = "ok"
    THEN [q EXCEPT !.calls = Append(@, o), !.pc = "returned", !.result = o]
    ELSE IF ~ShouldRetry(GetStatusFromError(o))
    THEN [q EXCEPT !.calls = Append(@, o), !.last_err = o, !.pc = "raised", !.result = o]
    ELSE [q EXCEPT !.calls = Append(@, o), !.last_err = o, !.pc = "sleep"]

\* one attempt of the insert request of insert_event(A, p-a): a success is
\* applied by the store; a lost reply or a 5xx can reach the client after the
\* store applied the insert; an answer that refuses the request applies
\* nothing
InsertAttempt(o, applied) ==
    /\ rq.pc = "loop" /\ rq.i < rq.attempts
    /\ applied = \/ o.kind = "ok"
                 \/ /\ applied /\ o.kind = "raise"
                    /\ (o.status = NoStatus \/ (500 <= o.status /\ o.status <= 599))
    /\ rq' = RqAfterCall(rq, o)
    /\ store' = IF applied THEN InsertEvent(store, store_seq, "A", "p-a", clock) ELSE store
    /\ store_seq' = IF applied THEN store_seq + 1 ELSE store_seq
    /\ last_op' = [op |-> "insert", label |-> o.kind, id |-> o.status]
    /\ UNCHANGED <<regVars, lockVars, enrolls, calc, clock, reg_list, att_db_cache, tasks, nops,
                   admitted, reached, streamVars>>

InitInsert ==
    /\ BaseInit(StoreRows0) /\ RegInit(RfTable0) /\ LockInit
    /\ \E n \in 1..MaxAttempts : RetryInit(n)

NextInsert ==
    \/ \E o \in Outcomes, applied \in BOOLEAN : InsertAttempt(o, applied)
    \/ RetrySleep
    \/ RetryExhausted

SpecInsert == InitInsert /\ [][NextInsert]_vars

\* C21: when insert_event returns after retries, the store holds exactly one
\* new event row for the admission
C21_OneRowPerInsert ==
    rq.pc = "returned" => Cardinality(store \ StoreRows0) = 1

\* ---------------------------------------------------------------------
\* The schedule resolver of the daily rows: services.attendance_service
\* ---------------------------------------------------------------------

calcRest == <<regVars, lockVars, enrolls, rq, clock, reg_list, att_db_cache, store, store_seq, tasks,
              nops, admitted, reached, streamVars>>

\* _get_group_context(): meta by group id (label is the slug) and members
GroupMeta == [g \in {"g1", "g2"} |->
                 IF g = "g1" THEN [name |-> "Team A", label |-> "team-a"]
                 ELSE [name |-> "Team B", label |-> "team-b"]]

GroupMembers == [g \in {"g1", "g2"} |-> IF g = "g1" THEN {"p-a"} ELSE {"p-b"}]

\* _person_id_to_label(value): the label of the register entry of the person
PersonIdToLabel(pid) ==
    IF \E i \in DOMAIN reg_list : reg_list[i].person_id = pid
    THEN reg_list[CHOOSE i \in DOMAIN reg_list : reg_list[i].person_id = pid].label
    ELSE ""

Target(type, value, label) == [type |-> type, value |-> value, label |-> label]

\* a matcher that tries the label also when the person_id is known
TargetMatchesByLabelToo(t, label, pid) ==
    t.value = pid \/ Lower(t.value) = Lower(label)

\* one pass of the loop of _override_matches_label over a target
TargetMatches(t, label, pid) ==
    LET named(text) == {g \in DOMAIN GroupMeta :
                           Lower(text) \in {Lower(GroupMeta[g].label), Lower(GroupMeta[g].name)}}
        member(g) == g \in DOMAIN GroupMembers /\ pid # NoPid /\ pid \in GroupMembers[g]
        target_label == IF t.type = "person" /\ t.label = ""
                        THEN PersonIdToLabel(t.value) ELSE t.label
    IN IF t.value = "" THEN FALSE
       ELSE IF t.type = "person"
       THEN IF pid # NoPid THEN t.value = pid
            ELSE \/ Lower(t.value) = Lower(label)
                 \/ target_label # "" /\ Lower(target_label) = Lower(label)
       ELSE IF t.type = "label"
       THEN \/ Lower(t.value) = Lower(label)
            \/ target_label # "" /\ Lower(target_label) = Lower(label)
       ELSE IF t.type = "group"
       THEN \/ \E g \in ({t.value} \cap DOMAIN GroupMembers) \cup named(t.value) : member(g)
            \/ target_label # "" /\ \E g \in named(target_label) : member(g)
       ELSE FALSE

\* attendance_service._override_matches_label(ov, label, person_id=...)
OverrideMatchesLabel(targets, label, person_id) ==
    LET pid == IF HasPid(person_id) THEN person_id ELSE LabelToPersonId(label)
    IN targets = <<>> \/ \E i \in DOMAIN targets : TargetMatches(targets[i], label, pid)

\* the targets of an override in the checks
Targets ==
    {Target("person", "p-a", ""), Target("person", "a", ""), Target("person", "b", ""),
     Target("person", "p-x", "B"), Target("label", "a", ""), Target("label", "Bob", "B"),
     Target("group", "g1", ""), Target("group", "TEAM-A", ""), Target("group", "Team B", ""),
     Target("group", "g1", "team b"), Target("face_id", "1", "")}

MaxTargets == 2

TargetLists == UNION {[1..n -> Targets] : n \in 0..MaxTargets}

\* the identities a daily row can stand for
Candidates == {[label |-> "A", person_id |-> NoPid], [label |-> "A", person_id |-> "p-a"],
               [label |-> "B", person_id |-> NoPid], [label |-> "B", person_id |-> "p-b"]}

\* a call of _override_matches_label
MatchOverride(targets, c) ==
    /\ calc' = [op |-> "match", targets |-> targets, label |-> c.label,
                person_id |-> c.person_id,
                result |-> OverrideMatchesLabel(targets, c.label, c.person_id)]
    /\ last_op' = Quiet
    /\ UNCHANGED calcRest

NextMatch == \E targets \in TargetLists, c \in Candidates : MatchOverride(targets, c)

SpecMatch == InitWith(StoreRows0) /\ [][NextMatch]_vars

\* the person_id of the candidate of the last call, "" when it is unknown
CalcPid == IF HasPid(calc.person_id) THEN calc.person_id ELSE LabelToPersonId(calc.label)

\* the groups a text names: by id, by slug or by name
GroupsNamed(text) ==
    {g \in DOMAIN GroupMeta :
        \/ g = text
        \/ Lower(text) \in {Lower(GroupMeta[g].label), Lower(GroupMeta[g].name)}}

\* a target matches the candidate as the specification states it
MatchesAsStated(t) ==
    \/ /\ t.type = "person"
       /\ IF CalcPid # NoPid THEN t.value = CalcPid
          ELSE \/ Lower(t.value) = Lower(calc.label)
               \/ (t.label # "" /\ Lower(t.label) = Lower(calc.label))
    \/ t.type = "label" /\ Lower(t.value) = Lower(calc.label)
    \/ /\ t.type = "group" /\ CalcPid # NoPid
       /\ \E g \in GroupsNamed(t.value) : CalcPid \in GroupMembers[g]

\* a label or group target matches through its display label as well
MatchesThroughLabel(t) ==
    /\ t.label # ""
    /\ \/ t.type = "label" /\ Lower(t.label) = Lower(calc.label)
       \/ /\ t.type = "group" /\ CalcPid # NoPid
          /\ \E g \in GroupsNamed(t.label) \ {t.label} : CalcPid \in GroupMembers[g]

\* C23 as stated: empty targets match everybody, and a target list matches
\* iff one of its targets matches by the rules of its type
C23_MatchAsStated ==
    calc.op = "match" =>
        (calc.result <=>
            (calc.targets = <<>> \/ \E i \in DOMAIN calc.targets :
                                       MatchesAsStated(calc.targets[i])))

\* C23: the same, where a label target also matches when its display label
\* equals the label ignoring case, and a group target also when its display
\* label is the slug or name of a group the person is a member of
C23_Match ==
    calc.op = "match" =>
        (calc.result <=>
            (calc.targets = <<>> \/ \E i \in DOMAIN calc.targets :
                 MatchesAsStated(calc.targets[i]) \/ MatchesThroughLabel(calc.targets[i])))

\* a person target whose value is the label does not match a candidate whose
\* known person_id differs from it
C23_Witness ==
    /\ calc.op = "match" /\ ~calc.result
    /\ calc.label = "A" /\ calc.person_id = "p-a"
    /\ calc.targets = <<Target("person", "a", "")>>

\* a schedule override: dates are day numbers, check_in is minutes of the day
Override(id, start, end, check_in, targets) ==
    [id |-> id, start_date |-> start, end_date |-> end, check_in |-> check_in,
     targets |-> targets]

MaxDay == 8

\* 09:30 for seven days, 10:00 for one day, 08:00 for three days, 09:00 for
\* seven days starting a day later, and 11:00 for one day for person p-b only
Overrides ==
    {Override(1, 1, 7, 570, <<>>), Override(2, 3, 3, 600, <<>>),
     Override(3, 2, 4, 480, <<>>), Override(4, 2, 8, 540, <<>>),
     Override(5, 3, 3, 660, <<Target("person", "p-b", "")>>)}

MaxOverrides == 2

OverrideLists == UNION {[1..n -> Overrides] : n \in 0..MaxOverrides}

\* the overrides of the list that are active on the day and match the identity
ActiveMatches(overrides, day, label, person_id) ==
    SelectSeq(overrides, LAMBDA ov :
        /\ ov.start_date <= day /\ day <= ov.end_date
        /\ OverrideMatchesLabel(ov.targets, label, person_id))

\* attendance_service._find_schedule_for_day: the override part; the weekly
\* rules and the default answer when no override is active and matches
FindScheduleForDay(overrides, day, label, person_id) ==
    LET matches == ActiveMatches(overrides, day, label, person_id)
    IN IF matches # <<>>
       THEN [source |-> "override", check_in |-> matches[Len(matches)].check_in,
             id |-> matches[Len(matches)].id]
       ELSE [source |-> "weekly", check_in |-> 510, id |-> NoId]

\* a call of the resolver for the first event of an identity on a day
ResolveDay(overrides, day, c) ==
    /\ calc' = [op |-> "resolve", overrides |-> overrides, day |-> day, label |-> c.label,
                person_id |-> c.person_id,
                result |-> FindScheduleForDay(overrides, day, c.label, c.person_id)]
    /\ last_op' = Quiet
    /\ UNCHANGED calcRest

NextSched == \E overrides \in OverrideLists, day \in 1..MaxDay, c \in Candidates :
                 ResolveDay(overrides, day, c)

SpecSched == InitWith(StoreRows0) /\ [][NextSched]_vars

\* C22: when overrides are active on the day and match, the resolver answers
\* with one of the fewest days of span, and among those of the latest start
C22_NarrowestSpanWins ==
    calc.op = "resolve" =>
        LET matches == ActiveMatches(calc.overrides, calc.day, calc.label, calc.person_id)
        IN matches # <<>> =>
               /\ calc.result.source = "override"
               /\ \E i \in DOMAIN matches :
                      /\ matches[i].id = calc.result.id
                      /\ matches[i].check_in = calc.result.check_in
                      /\ \A j \in DOMAIN matches :
                             LET a == matches[i]
                                 b == matches[j]
                             IN \/ a.end_date - a.start_date < b.end_date - b.start_date
                                \/ /\ a.end_date - a.start_date = b.end_date - b.start_date
                                   /\ a.start_date >= b.start_date

\* ---------------------------------------------------------------------
\* The daily row of an identity: attendance_service.build_daily_rows
\* ---------------------------------------------------------------------

\* a schedule without check_in or check_out carries no time there
NoTime == -1

\* "HH:MM" as minutes of the day; HMS is a time of the day in seconds
HM(h, m) == 60 * h + m

HMS(h, m, sec) == 3600 * h + 60 * m + sec

\* helpers.time_utils.clamp_int on an integer
ClampInt(v, lo, hi) == IF v < lo THEN lo ELSE IF v > hi THEN hi ELSE v

\* a first event exactly at the gate counts as late
IsLateAtGate(first, gate) == first >= gate

\* build_daily_rows: "if first > gate"
IsLate(first, gate) == first > gate

\* build_daily_rows, the part that grades one aggregated row against its schedule
DailyRow(first, last, sched, count) ==
    LET gate == 60 * (sched.check_in + ClampInt(sched.grace_in_min, 0, 240))
        gate_out == 60 * (sched.check_out - ClampInt(sched.grace_out_min, 0, 240))
        late == sched.enabled /\ sched.check_in # NoTime /\ IsLate(first, gate)
        left_early == sched.enabled /\ sched.check_out # NoTime /\ last < gate_out
    IN [late |-> late,
        left_early |-> left_early,
        late_minutes |-> IF late THEN (first - gate) \div 60 ELSE 0,
        left_early_minutes |-> IF left_early THEN (gate_out - last) \div 60 ELSE 0,
        status_code |-> IF ~sched.enabled THEN "off"
                        ELSE IF late /\ left_early THEN "late_and_left_early"
                        ELSE IF late THEN "late"
                        ELSE IF left_early THEN "left_early"
                        ELSE "present",
        status_tags |-> IF ~sched.enabled
                        THEN IF count > 0 THEN <<"Off Day", "Present">> ELSE <<"Off Day">>
                        ELSE IF late /\ left_early THEN <<"Late", "Left Early">>
                        ELSE IF late THEN <<"Late">>
                        ELSE IF left_early THEN <<"Left Early">>
                        ELSE <<"Present">>]

\* the first and the last event of a day, in seconds of the day
FirstTimes == {HMS(8, 0, 0), HMS(9, 10, 0), HMS(9, 10, 59), HMS(9, 15, 0),
               HMS(9, 15, 30), HMS(17, 5, 0)}

LastTimes == {HMS(9, 15, 30), HMS(16, 53, 1), HMS(16, 55, 0), HMS(17, 0, 0),
              HMS(17, 5, 0)}

\* what _find_schedule_for_day answers: grace is clamped to 0..240 there
Schedules ==
    [enabled : BOOLEAN, check_in : {NoTime, HM(9, 0)}, check_out : {NoTime, HM(17, 0)},
     grace_in_min : {0, 10}, grace_out_min : {0, 5}]

\* one row of build_daily_rows; a row aggregates at least one event
GradeRow(first, last, sched, count) ==
    /\ first <= last
    /\ calc' = [op |-> "row", first |-> first, last |-> last, sched |-> sched,
                count |-> count, result |-> DailyRow(first, last, sched, count)]
    /\ last_op' = Quiet
    /\ UNCHANGED calcRest

NextRow == \E first \in FirstTimes, last \in LastTimes, sched \in Schedules :
               GradeRow(first, last, sched, 1)

SpecRow == InitWith(StoreRows0) /\ [][NextRow]_vars

\* the whole minutes between two times of the day, zero when b is not after a
WholeMinutes(a, b) ==
    IF b <= a THEN 0 ELSE CHOOSE m \in 0..1440 : a + 60 * m <= b /\ b < a + 60 * (m + 1)

\* C24: with an enabled schedule the row is late iff the first event is after
\* check_in + grace_in_min and left-early iff the last event is before
\* check_out - grace_out_min, the minutes are the whole minutes to the gate
\* and the status code follows; a disabled schedule gives code off with the
\* tags Off Day and Present
C24_DailyRow ==
    calc.op = "row" =>
        LET r == calc.result
            sc == calc.sched
            gate == 60 * (sc.check_in + sc.grace_in_min)
            gate_out == 60 * (sc.check_out - sc.grace_out_min)
        IN /\ (sc.enabled /\ sc.check_in # NoTime) =>
                  /\ r.late <=> calc.first > gate
                  /\ r.late_minutes = WholeMinutes(gate, calc.first)
           /\ (sc.enabled /\ sc.check_out # NoTime) =>
                  /\ r.left_early <=> calc.last < gate_out
                  /\ r.left_early_minutes = WholeMinutes(calc.last, gate_out)
           /\ sc.enabled =>
                  /\ r.status_code = (IF r.late /\ r.left_early THEN "late_and_left_early"
                                      ELSE IF r.late THEN "late"
                                      ELSE IF r.left_early THEN "left_early"
                                      ELSE "present")
                  /\ r.status_tags = (IF r.late /\ r.left_early THEN <<"Late", "Left Early">>
                                      ELSE IF r.late THEN <<"Late">>
                                      ELSE IF r.left_early THEN <<"Left Early">>
                                      ELSE <<"Present">>)
           /\ ~sc.enabled =>
                  r.status_code = "off" /\ r.status_tags = <<"Off Day", "Present">>
           /\ ( /\ calc.first = HMS(9, 15, 0) /\ calc.last = HMS(17, 5, 0)
                /\ sc = [enabled |-> TRUE, check_in |-> HM(9, 0), check_out |-> HM(17, 0),
                         grace_in_min |-> 10, grace_out_min |-> 5] ) =>
                  /\ r.late_minutes = 5 /\ r.left_early_minutes = 0
                  /\ r.status_tags = <<"Late">> /\ r.status_code = "late"

\* the row of the example: events at 09:15 and 17:05 against 09:00 / 17:00
\* with grace 10 / 5
C24_Witness ==
    /\ calc.op = "row" /\ calc.first = HMS(9, 15, 0) /\ calc.last = HMS(17, 5, 0)
    /\ calc.sched = [enabled |-> TRUE, check_in |-> HM(9, 0), check_out |-> HM(17, 0),
                     grace_in_min |-> 10, grace_out_min |-> 5]
    /\ calc.result.late /\ calc.result.late_minutes = 5

\* ---------------------------------------------------------------------
\* The size of the cached snapshot and the ids of its events
\* ---------------------------------------------------------------------

\* C25: whatever was loaded, recorded, created, edited, deleted, cleared or
\* written through, the cached snapshot holds at most MAX_EVENTS events
C25_CacheHoldsMaxEvents ==
    att_db_cache.present => Len(att_db_cache.db.att_events) <= MaxAttEvents

\* C26: the id a record assigns to its event is strictly greater than the id
\* of every event recorded before it
C26_IdsStrictlyIncrease ==
    \A i, j \in DOMAIN admitted : i < j => admitted[i].id < admitted[j].id

\* ---------------------------------------------------------------------
\* The identity index: match and the installs of vectors
\* ---------------------------------------------------------------------

\* an embedding by its direction and its length; cosine similarity depends
\* on the directions alone.  d lies half way between e1 and e2.
Vec(dir, norm) == [dir |-> dir, norm |-> norm]

Dirs == {"e1", "e2", "d"}

ZeroVec == Vec("none", 0)

\* an entry of the roster without embedding: the empty list
NoEmb == <<>>

\* the cosine similarity of two vectors, in hundredths
Cosine(a, b) ==
    IF a.norm = 0 \/ b.norm = 0 THEN 0
    ELSE IF a.dir = b.dir THEN 100
    ELSE IF "d" \in {a.dir, b.dir} THEN 71
    ELSE 0

\* a match that goes through the entries in the order of their install and
\* keeps the first of the best
MatchFirstInstalled(entries, probe) ==
    IF entries = <<>> THEN [label |-> "Unknown", score |-> 0]
    ELSE LET i == CHOOSE k \in DOMAIN entries :
                      /\ \A j \in DOMAIN entries :
                             Cosine(entries[j].vec, probe) <= Cosine(entries[k].vec, probe)
                      /\ \A j \in 1..(k - 1) :
                             Cosine(entries[j].vec, probe) < Cosine(entries[k].vec, probe)
         IN [label |-> entries[i].label, score |-> Cosine(entries[i].vec, probe)]

\* match(probe, method="cosine") over the entries of the index, which a dict
\* keeps in the order of their install
Match(entries, probe) ==
    IF entries = <<>> THEN [label |-> "Unknown", score |-> 0]
    ELSE LET i == CHOOSE k \in DOMAIN entries :
                      \A j \in DOMAIN entries :
                          \/ Cosine(entries[j].vec, probe) < Cosine(entries[k].vec, probe)
                          \/ /\ Cosine(entries[j].vec, probe) = Cosine(entries[k].vec, probe)
                             /\ LabelRank(entries[k].label) <= LabelRank(entries[j].label)
         IN [label |-> entries[i].label, score |-> Cosine(entries[i].vec, probe)]

MaxEntries == 2

\* the indexes of up to MaxEntries labels, in every order of install
Indexes ==
    UNION {{e \in [1..n -> [label : RLabels, vec : {Vec(d, 1) : d \in Dirs}]] :
               \A i, j \in 1..n : i # j => e[i].label # e[j].label} : n \in 0..MaxEntries}

\* a call of match
MatchProbe(entries, probe) ==
    /\ calc' = [op |-> "probe", entries |-> entries, probe |-> probe,
                result |-> Match(entries, probe)]
    /\ last_op' = Quiet
    /\ UNCHANGED calcRest

NextProbe == \E entries \in Indexes, d \in Dirs : MatchProbe(entries, Vec(d, 1))

SpecProbe == InitWith(StoreRows0) /\ [][NextProbe]_vars

\* the labels of the entries whose similarity to the probe is maximal
BestLabels ==
    {calc.entries[k].label : k \in {k \in DOMAIN calc.entries :
        \A j \in DOMAIN calc.entries :
            Cosine(calc.entries[j].vec, calc.probe) <= Cosine(calc.entries[k].vec, calc.probe)}}

Vectors == {Vec(d, n) : d \in Dirs, n \in 1..2} \cup {ZeroVec}

\* put(label, vector): a vector that is not zero is installed with length 1,
\* the zero vector is refused
EngineRegisterEmbedding(db, label, vec) ==
    IF vec.norm = 0 THEN db ELSE Put(db, label, Vec(vec.dir, 1))

\* services.engine_ops.refresh_from_register: the index is emptied, then every
\* entry with a label and a non-empty embedding is installed, divided by its
\* norm when the norm is positive; a later entry of a label replaces an
\* earlier one
RefreshFromRegister(entries) ==
    LET labels == {entries[i].label : i \in DOMAIN entries} \ {""}
        with_emb(l) == {i \in DOMAIN entries : entries[i].label = l /\ entries[i].emb # NoEmb}
        arr(l) == entries[SetMax(with_emb(l))].emb
    IN [l \in {k \in labels : with_emb(k) # {}} |->
           IF arr(l).norm > 0 THEN Vec(arr(l).dir, 1) ELSE arr(l)]

\* the rosters the index is refreshed from: Alice with any embedding or none,
\* and Bob with any embedding, none, or not enrolled
VecRosters ==
    {<<Row(1, 1, "Alice", a, 1)>> : a \in Vectors \cup {NoEmb}}
        \cup {<<Row(1, 1, "Alice", a, 1), Row(2, 2, "Bob", b, 2)>> :
                 a \in {Vec("e1", 1), ZeroVec}, b \in Vectors \cup {NoEmb}}

indexRest == <<rf_table, reg_cache, rdb_cache, photos, photo_seq, pid_seq, preview_cache, rops,
               lockVars, enrolls, rq, calc, clock, reg_list, att_db_cache, store, store_seq,
               tasks, nops, admitted, reached, streamVars>>

\* refresh_from_register(reason), under ENGINE_LOCK
Refresh ==
    /\ engine_db' = RefreshFromRegister(rf_table)
    /\ last_op' = [op |-> "refresh", label |-> "", id |-> 0]
    /\ UNCHANGED indexRest

\* engine.register_embedding(label, emb)
Install(label, vec) ==
    /\ engine_db' = EngineRegisterEmbedding(engine_db, label, vec)
    /\ last_op' = [op |-> "install", label |-> label, id |-> vec.norm]
    /\ UNCHANGED indexRest

InitIndex ==
    /\ BaseInit(StoreRows0) /\ LockInit /\ RetryInit(1)
    /\ rf_table \in VecRosters
    /\ reg_cache = NoList /\ rdb_cache = NoList
    /\ engine_db = EmptyMap
    /\ photos = {rf_table[i].photo_path : i \in DOMAIN rf_table}
    /\ photo_seq = Len(rf_table) /\ pid_seq = Len(rf_table)
    /\ preview_cache = PreviewCache0
    /\ rops = 0

NextIndex == Refresh \/ \E l \in {"Alice", "Bob"}, v \in Vectors : Install(l, v)

SpecIndex == InitIndex /\ [][NextIndex]_vars

\* C28: after any installs every vector of the index is non-zero and has
\* length 1
C28_IndexVectorsUnit == \A l \in DOMAIN engine_db : engine_db[l].norm = 1

\* ---------------------------------------------------------------------
\* The preview cache: store, get and the single use of a token
\* ---------------------------------------------------------------------

\* _REGISTER_PREVIEW_TTL, in seconds
PreviewTtl == 600

\* _REGISTER_PREVIEW_MAX, scaled down from 256
PreviewMax == 2

\* the requests of a run, and the seconds it lasts
MaxPreviewOps == 4

PreviewHorizon == 1300

\* an entry is expired when it is older than the TTL
Expired(entry, now) == now - entry.ts > Ms(PreviewTtl)

\* the tokens of a cache from the oldest timestamp on; a dict keeps the
\* order of insertion, which is the order of the token numbers
RECURSIVE OldestFirst(_)
OldestFirst(cache) ==
    IF DOMAIN cache = {} THEN <<>>
    ELSE LET t == CHOOSE t \in DOMAIN cache :
                      \A u \in DOMAIN cache :
                          \/ cache[t].ts < cache[u].ts
                          \/ cache[t].ts = cache[u].ts /\ t <= u
         IN <<t>> \o OldestFirst(Drop(cache, t))

\* _preview_cache_prune at time now
PreviewCachePrune(cache, now) ==
    LET live == [t \in {t \in DOMAIN cache : ~Expired(cache[t], now)} |-> cache[t]]
        n == Cardinality(DOMAIN live)
        order == OldestFirst(live)
        evicted == IF n > PreviewMax THEN {order[i] : i \in 1..(n - PreviewMax)} ELSE {}
    IN [t \in DOMAIN live \ evicted |-> live[t]]

\* _preview_cache_store(token, entry) at time now
PreviewCacheStore(cache, token, entry, now) ==
    Put(PreviewCachePrune(cache, now), token, [entry EXCEPT !.ts = now])

\* a get that does not look at the age of the entry
PreviewCacheGetAny(cache, token, now) ==
    [cache |-> cache, found |-> token \in DOMAIN cache]

\* _preview_cache_get(token) at time now: the cache afterwards, and whether
\* an entry is returned
PreviewCacheGet(cache, token, now) ==
    IF token \notin DOMAIN cache THEN [cache |-> cache, found |-> FALSE]
    ELSE IF Expired(cache[token], now) THEN [cache |-> Drop(cache, token), found |-> FALSE]
    ELSE [cache |-> cache, found |-> TRUE]

previewRest == <<reg_list, lockVars, enrolls, rq, calc, att_db_cache, store, store_seq, tasks, nops,
                 admitted, reached, streamVars>>

\* time passes: half a TTL, or a millisecond more
PreviewTick(d) ==
    /\ clock + d <= Epoch0 + Ms(PreviewHorizon)
    /\ clock' = clock + d
    /\ last_op' = [op |-> "tick", token |-> 0, status |-> 0, found |-> FALSE,
                   pre |-> preview_cache]
    /\ UNCHANGED <<regVars, previewRest>>

\* register_face_preview(file): the picture is matched and kept under a new
\* token
PreviewStore(face) ==
    /\ rops < MaxPreviewOps
    /\ preview_cache' = PreviewCacheStore(preview_cache, rops + 1,
                            [ts |-> 0, face |-> face,
                             faces |-> <<EngineRecognize(engine_db, face)>>], clock)
    /\ rops' = rops + 1
    /\ last_op' = [op |-> "preview", token |-> rops + 1, status |-> 200, found |-> FALSE,
                   pre |-> preview_cache]
    /\ UNCHANGED <<rf_table, reg_cache, rdb_cache, engine_db, photos, photo_seq, pid_seq,
                   clock, previewRest>>

\* register_face(label, force, preview_token=token) without a file
EnrollToken(label, token, force, fault) ==
    /\ rops < MaxPreviewOps
    /\ LET got == PreviewCacheGet(preview_cache, token, clock)
           res == RegisterFace([RegState EXCEPT !.preview = got.cache], label, token, "",
                               force, fault)
       IN /\ RegStep(res.R)
          /\ last_op' = [op |-> "enroll", token |-> token, status |-> res.status,
                         found |-> got.found, pre |-> preview_cache]

InitPreview ==
    /\ BaseInit(StoreRows0) /\ LockInit /\ RetryInit(1)
    /\ rf_table = RfTable0
    /\ reg_cache = NoList /\ rdb_cache = NoList
    /\ engine_db = IndexOf(RfTable0)
    /\ photos = {RfTable0[i].photo_path : i \in DOMAIN RfTable0}
    /\ photo_seq = Len(RfTable0) /\ pid_seq = Len(RfTable0)
    /\ preview_cache = EmptyMap
    /\ rops = 0

NextPreview ==
    \/ \E d \in {Ms(300), Ms(300) + 1} : PreviewTick(d)
    \/ \E f \in Faces : PreviewStore(f)
    \/ \E label \in {"Alice", "Alice2"}, token \in 1..MaxPreviewOps, force \in BOOLEAN,
          fault \in {"none", "upload"} : EnrollToken(label, token, force, fault)

SpecPreview == InitPreview /\ [][NextPreview]_vars

\* C29: after a store the cache holds at most the cap of entries and none
\* that was expired when the store was made, and the entries the store
\* evicted for the cap are older than those it kept
C29_StoreKeepsCap ==
    last_op.op = "preview" =>
        /\ Cardinality(DOMAIN preview_cache) <= PreviewMax
        /\ \A t \in DOMAIN preview_cache : ~Expired(preview_cache[t], clock)
        /\ \A e \in DOMAIN last_op.pre \ DOMAIN preview_cache, k \in DOMAIN last_op.pre :
               (k \in DOMAIN preview_cache /\ ~Expired(last_op.pre[e], clock))
                   => last_op.pre[e].ts <= last_op.pre[k].ts

FrameFails(f) ==
    /\ LoopFree
    /\ f \in frames
    /\ f.pc = "recognize"
    /\ frames' = (frames \ {f}) \cup {[f EXCEPT !.pc = "finish"]}
    /\ last_op' = [op |-> "frame_error", label |-> "", id |-> f.id, sid |-> f.sid,
                   event |-> "att_error"]
    /\ UNCHANGED <<attState, sessions, att_cfg, att_last_proc, att_prev_set, att_processing,
                   att_hold_frames, msg_delay_until, accepted, nframes>>

\* a frame goes on from the return of _engine_recognize; once the budget of
\* admissions is used up the recognizer finds nobody above the threshold
FrameGoesOn ==
    \E f \in frames, rec \in RecInputs :
        (Budget \/ LabelsSet(rec, f.th) = {}) /\ FrameProcess(f, rec)

FrameEnds == \E f \in frames : FrameFinish(f)

\* the await of _engine_recognize returns: with an exception or with a result
FrameResumes == (\E f \in frames : FrameFails(f)) \/ FrameGoesOn

NextLive ==
    \/ \E t \in StreamInstants : Epoch0 + t > clock /\ Tick(Epoch0 + t - clock)
    \/ \E sid \in Sids : Connect(sid)
    \/ \E sid \in Sids : Disconnect(sid)
    \/ \E sid \in Sids, d \in BOOLEAN : FrameArrive(sid, d)
    \/ FrameResumes
    \/ FrameEnds
    \/ \E i \in 1..MaxTasks : PersistFetch(i)
    \/ \E i \in 1..MaxTasks : PersistDelete(i)
    \/ \E i \in 1..MaxTasks : PersistInsert(i)
    \/ \E i \in 1..MaxTasks : PersistUpdate(i)
    \/ \E i \in 1..MaxTasks : PersistDone(i)

\* the event loop resumes a handler whose await has returned
SpecLive ==
    /\ InitStream /\ [][NextLive]_vars
    /\ WF_vars(FrameResumes) /\ WF_vars(FrameEnds)

\* the step emits the result or the error of a frame while an earlier frame
\* of the session is still in processing
EmitsOutOfOrder ==
    /\ last_op'.op \in {"frame", "frame_error"}
    /\ last_op' # last_op
    /\ \E g \in frames : g.sid = last_op'.sid /\ g.id < last_op'.id

\* C31: a session with a frame in processing gets to a state with none and
\* with in_flight cleared, whatever path the frame takes, and no frame emits
\* while an earlier frame of its session is in processing
C31_FrameClearsInFlight ==
    /\ \A sid \in Sids :
           (InFlight(sid) \/ sid \in att_processing)
               ~> (~InFlight(sid) /\ sid \notin att_processing)
    /\ [][~EmitsOutOfOrder]_vars

\* a second frame of the session was accepted after the first was through,
\* and it is through as well
C31_Witness ==
    /\ Len(accepted) = 2
    /\ frames = {}
    /\ att_processing = {}
    /\ last_op.op = "" /\ nframes = 2

AcceptsUndecodable ==
    /\ last_op'.op = "accept" /\ last_op'.event = "att_error"
    /\ nframes' = nframes + 1

\* the step ends the handler of a frame
EndsFrame == \E f \in frames : f.pc = "finish" /\ frames' = frames \ {f}

C33_Step ==
    /\ AcceptsUndecodable =>
           /\ <<att_db_cache, store, store_seq, tasks, admitted>>'
                  = <<att_db_cache, store, store_seq, tasks, admitted>>
           /\ att_prev_set' = att_prev_set
           /\ att_hold_frames' = att_hold_frames
           /\ att_cfg' = att_cfg /\ msg_delay_until' = msg_delay_until
           /\ att_last_proc' = Put(att_last_proc, last_op'.sid, clock)
           /\ \E f \in frames' \ frames : f.sid = last_op'.sid /\ f.pc = "finish"
    /\ EndsFrame =>
           /\ \A f \in frames \ frames' : f.sid \notin att_processing'
           /\ <<att_db_cache, store, store_seq, tasks, admitted>>'
                  = <<att_db_cache, store, store_seq, tasks, admitted>>
           /\ <<att_prev_set, att_hold_frames, att_last_proc>>'
                  = <<att_prev_set, att_hold_frames, att_last_proc>>

\* C33: a frame that cannot be decoded emits one error event and ends: it
\* records nothing, leaves prev_labels and hold_frames alone, advances
\* last_proc, and its handler ends with in_flight cleared
C33_UndecodableFrame == [][C33_Step]_vars

\* an undecodable frame was accepted and its handler has ended
C33_Witness ==
    /\ last_op.op = "" /\ frames = {} /\ att_processing = {}
    /\ Len(accepted) = 1 /\ nframes = 1
    /\ att_prev_set = EmptyMap /\ att_hold_frames = EmptyMap
    /\ accepted[1].sid \in DOMAIN att_last_proc

\* ---------------------------------------------------------------------
\* Admissions and the rows of the durable store
\* ---------------------------------------------------------------------

\* the rows of the store that hold the event of admission adm: the row of the
\* mirror insert and the row the write-through wrote under the event's id
RowsOfAdmission(rows, adm) ==
    {r \in rows :
        /\ r.label = adm.label
        /\ r.pid = adm.pid
        /\ \/ r.id = adm.mid /\ r.ts = NormalizeTsNow(adm.t)
           \/ r.id = adm.id /\ r.ts = adm.ts}

\* C34: once no write-through is left running, every admission is held by
\* exactly one row of the durable store
C34_OneRowPerAdmission ==
    tasks = <<>> =>
        \A i \in DOMAIN admitted : Cardinality(RowsOfAdmission(store, admitted[i])) = 1

\* C35: a step of a write-through removes no row from the durable store
\* (the specification of records and write-throughs has no admin operation)
C35_WriteThroughDeletesNothing == [][Ids(store) \subseteq Ids(store')]_vars

\* the cached snapshot shows the event of admission adm
CacheShows(adm) ==
    \E k \in DOMAIN CachedDb.att_events :
        /\ CachedDb.att_events[k].id = adm.id
        /\ CachedDb.att_events[k].label = adm.label
        /\ CachedDb.att_events[k].ts = adm.ts

\* C36: the cached snapshot never goes back: it shows the last-seen time of
\* every admission, and the event of every admission that the MAX_EVENTS
\* trim has not dropped
C36_CacheNeverGoesBack ==
    att_db_cache.present =>
        \A i \in DOMAIN admitted :
            /\ Get(CachedDb.att_last, admitted[i].label, 0) >= admitted[i].t
            /\ Len(admitted) - i < MaxAttEvents => CacheShows(admitted[i])

\* ---------------------------------------------------------------------
\* A cache rebuild whose fetch fails
\* ---------------------------------------------------------------------

\* load_attendance_db with no cached snapshot while the store does not
\* answer: _fetch_attendance_events catches the exception and returns [],
\* and the snapshot built from no rows is cached
LoadFetchFails ==
    /\ LoopFree
    /\ ~att_db_cache.present
    /\ att_db_cache' = SetAttendanceCache(LoadFromStore({}))
    /\ last_op' = [op |-> "load_failed", label |-> "", id |-> 0]
    /\ UNCHANGED <<clock, reg_list, extVars, streamVars, store, store_seq, tasks, nops,
                   admitted, reached>>

NextFetch ==
    \/ \E d \in TickSteps : Tick(d)
    \/ LoadFetchFails
    \/ \E l \in Labels : Record(l)
    \/ \E i \in 1..MaxTasks : PersistFetch(i)
    \/ \E i \in 1..MaxTasks : PersistDelete(i)
    \/ \E i \in 1..MaxTasks : PersistInsert(i)
    \/ \E i \in 1..MaxTasks : PersistUpdate(i)
    \/ \E i \in 1..MaxTasks : PersistDone(i)

SpecFetch == Init /\ [][NextFetch]_vars

\* C37: whether or not a fetch failed, an admission gets an id above the ids
\* of the stored events and lies a cooldown after the stored events of its
\* label, and the write-through of the first admission (which the trim does
\* not touch) leaves the stored events in the store
C37_FailedFetchKeepsStore ==
    /\ \A i \in DOMAIN admitted :
           /\ admitted[i].id > SetMax(Ids(StoreRows0))
           /\ \A r \in StoreRows0 :
                  r.label = admitted[i].label => admitted[i].t - r.ts >= CooldownMs
    /\ Len(admitted) <= 1 => Ids(StoreRows0) \subseteq Ids(store)

\* ---------------------------------------------------------------------
\* The roster in the store and the index after a delete
\* ---------------------------------------------------------------------

\* C40: after a delete answered 200 the table of the store holds no row with
\* the deleted id, and the index does not hold the label unless another row
\* carried it too
C40_DeletedIsGone ==
    (last_op.op = "delete" /\ last_op.status = 200) =>
        /\ \A i \in DOMAIN rf_table : rf_table[i].id # last_op.id
        /\ (\A i \in DOMAIN last_op.pre.table :
                last_op.pre.table[i].label = last_op.label
                    => last_op.pre.table[i].id = last_op.id)
           => last_op.label \notin DOMAIN engine_db

\* the labels of the rows that carry an embedding
LabelsWithEmbedding(rows) ==
    {rows[i].label : i \in {j \in DOMAIN rows : rows[j].label # "" /\ rows[j].emb # ""}}

\* C38: after an enroll, a delete, a rename or a reconcile pass that
\* succeeded, the labels of the index are the labels of the roster's rows
\* with an embedding
C38_IndexMatchesRoster ==
    (last_op.op \in {"enroll", "delete", "rename", "reconcile"} /\ last_op.status = 200)
        => DOMAIN engine_db = LabelsWithEmbedding(rf_table)

\* ---------------------------------------------------------------------
\* register_face as a coroutine: two requests in flight
\* ---------------------------------------------------------------------
Handlers == {1, 2}

\* labels other than the one the force-replace removes
PairLabels == {"Alice2", "Bob", "Carol"}

\* f1 is the face enrolled as Alice; no identity is enrolled with f2 or f4
PairFaces == {"f1", "f2", "f4"}

pairRest == <<rops, lockVars, rq, calc, clock, reg_list, att_db_cache, store, store_seq,
              tasks, nops, admitted, reached, streamVars>>

\* the variables of the register take the values of R
PairStep(R) ==
    /\ rf_table' = R.table
    /\ reg_cache' = R.cache
    /\ rdb_cache' = R.rdb
    /\ engine_db' = R.index
    /\ photos' = R.photos
    /\ photo_seq' = R.photo_seq
    /\ pid_seq' = R.pid_seq
    /\ preview_cache' = R.preview
    /\ UNCHANGED pairRest

NoReuse == [person_id |-> NoId, id |-> NoId]

\* the other handlers after a step that left the cache as `cache`: one that
\* holds the list object of the lru_cache keeps the object, with the
\* contents `object`, when the cache is cleared
Detached(h, cache, object) ==
    [g \in DOMAIN enrolls \ {h} |->
        IF enrolls[g].shared /\ ~cache.present
        THEN [enrolls[g] EXCEPT !.shared = FALSE, !.entries = object]
        ELSE enrolls[g]]

\* register_face with a file, up to the await of the duplicate recognition;
\* a request with force carries a face that is enrolled already
EnrollArrive(h, label, face, force) ==
    /\ h \notin DOMAIN enrolls
    /\ force <=> face = "f1"
    /\ \A g \in DOMAIN enrolls : enrolls[g].label # label /\ enrolls[g].face # face
    /\ enrolls' = Put(enrolls, h, [pc |-> "recognize", label |-> label, face |-> face,
                                   force |-> force, shared |-> FALSE, entries |-> <<>>,
                                   reuse |-> NoReuse, status |-> 0, overlapped |-> FALSE])
    /\ last_op' = Quiet
    /\ UNCHANGED <<regVars, pairRest>>

\* register_face from the result of the duplicate recognition to its next
\* await: entries = _load_reg_list() is the list object the lru_cache holds;
\* with duplicates and force the handler goes on with the new list kept,
\* saves it and awaits the refresh of the index
EnrollLoad(h) ==
    /\ h \in DOMAIN enrolls
    /\ enrolls[h].pc = "recognize"
    /\ LET e == enrolls[h]
           hit == EngineRecognize(engine_db, e.face)
           R1 == Loaded(RegState)
           entries == R1.cache.list
           removed == SelectSeq(entries, LAMBDA r : r.label # "" /\ r.label = hit)
           kept == SelectSeq(entries, LAMBDA r : ~(r.label # "" /\ r.label = hit))
           R2 == [R1 EXCEPT !.photos = @ \ {removed[i].photo_path : i \in DOMAIN removed},
                            !.index = ForgetAll(@, removed)]
           sav == SaveRegList(R2, kept, "none")
           mine == IF hit = "Unknown"
                   THEN [e EXCEPT !.pc = "embed", !.shared = TRUE]
                   ELSE IF ~e.force THEN [e EXCEPT !.pc = "done", !.status = 409]
                   ELSE [e EXCEPT !.pc = "refresh", !.entries = kept,
                                  !.reuse = ReuseMeta(removed, e.label)]
           R == IF hit # "Unknown" /\ e.force THEN sav.R ELSE R1
       IN /\ PairStep(R)
          /\ enrolls' = [g \in DOMAIN enrolls |->
                            IF g = h THEN mine ELSE Detached(h, R.cache, entries)[g]]
    /\ last_op' = Quiet

\* the awaited _engine_refresh_async of the force-replace has run
EnrollRefresh(h) ==
    /\ h \in DOMAIN enrolls
    /\ enrolls[h].pc = "refresh"
    /\ LET R == EngineRefreshFromRegister(RegState)
       IN /\ PairStep(R)
          /\ enrolls' = [g \in DOMAIN enrolls |->
                            IF g = h THEN [enrolls[h] EXCEPT !.pc = "embed"]
                            ELSE Detached(h, R.cache, reg_cache.list)[g]]
    /\ last_op' = Quiet

\* register_face from the embedding to the reply
EnrollSave(h) ==
    /\ h \in DOMAIN enrolls
    /\ enrolls[h].pc = "embed"
    /\ LET e == enrolls[h]
           entries == IF e.shared THEN reg_cache.list ELSE e.entries
           res == RegisterFaceSave(RegState, entries, e.shared, e.reuse,
                                   e.label, e.face, "", "none")
           object == IF e.shared THEN res.R.table ELSE reg_cache.list
       IN /\ PairStep(res.R)
          /\ enrolls' = [g \in DOMAIN enrolls |->
                IF g = h
                THEN [e EXCEPT !.pc = "done", !.status = res.status,
                               !.overlapped = \E k \in DOMAIN enrolls \ {h} :
                                                 enrolls[k].pc \in {"refresh", "embed"}]
                ELSE Detached(h, res.R.cache, object)[g]]
          /\ last_op' = [op |-> "enroll_done", label |-> e.label, id |-> 0,
                         status |-> res.status]

NextPair ==
    \/ \E h \in Handlers, label \in PairLabels, face \in PairFaces, force \in BOOLEAN :
          EnrollArrive(h, label, face, force)
    \/ \E h \in Handlers : EnrollLoad(h)
    \/ \E h \in Handlers : EnrollRefresh(h)
    \/ \E h \in Handlers : EnrollSave(h)

SpecPair == InitReg /\ [][NextPair]_vars

\* the rows of the roster that hold what handler h enrolled
EnrolledRows(h) ==
    {i \in DOMAIN rf_table :
        rf_table[i].label = enrolls[h].label /\ rf_table[i].emb = enrolls[h].face}

\* C39: when two enrollments of different labels and faces have both
\* answered, both answered 200, the roster holds both identities, and their
\* rows carry different ids
C39_ConcurrentEnrolls ==
    (\A h \in Handlers : h \in DOMAIN enrolls /\ enrolls[h].pc = "done") =>
        /\ \A h \in Handlers : enrolls[h].status = 200 /\ EnrolledRows(h) # {}
        /\ \A i \in EnrolledRows(1), j \in EnrolledRows(2) :
               /\ rf_table[i].id # NoId
               /\ rf_table[i].id # rf_table[j].id

====
